---------------------------- MODULE Spec2Model ----------------------------
(***************************************************************************)
(* A model of the indexing pipeline and the search engine of the           *)
(* repository: the filesystem event handler (debouncer), the event worker  *)
(* with its semaphore, the scan jobs of the indexing service, the deletion *)
(* tracker and the similarity search.                                      *)
(*                                                                         *)
(* Each component has its own specification over the shared variables; a   *)
(* component's actions leave the other components' variables unchanged.    *)
(***************************************************************************)
EXTENDS Integers, Sequences, FiniteSets, Bags, TLC

VARIABLES
    \* ---- MultimodalEventHandler (src/app/monitoring/event_handler.py)
    now,              \* time.time(), in whole seconds
    last_event_time,  \* self.last_event_time: path -> time of the last accepted event
    queue,            \* the shared asyncio.Queue of file events
    notifLog,         \* history: the notifications delivered so far and what each enqueued
    \* ---- the filesystem and the storage (src/app/database/models.py)
    disk,             \* path -> "file" | "empty": the regular files on disk
    folders,          \* the Folder rows, in registration order (id = position)
    files,            \* the File rows, in insertion order (id = position)
    embeddings,       \* the Embedding rows, in insertion order (id = position)
    jobs,             \* the IndexingJob rows (id = position)
    \* ---- IndexingService (src/app/services/indexing_service.py)
    scan,             \* job id -> the frame of its _perform_indexing task
    active_jobs,      \* self._active_jobs: the ids of the registered tasks
    faults,           \* history: the number of calls that raised so far
    provider_none,    \* history: job id -> files for which the provider gave no vector
    \* ---- IndexingWorker (src/app/monitoring/indexer.py)
    max_concurrent_jobs,  \* the constructor's argument
    semaphore,        \* self.semaphore: the value of the asyncio.Semaphore
    worker_running,   \* self._running
    tasks,            \* the bag of the frames of the live _process_event tasks
    events_queued,    \* history: the number of events put on the queue so far
    \* ---- DeletionTracker (src/app/services/deletion_tracker.py)
    notifying,        \* caller -> the frame of its notify_if_deleted call
    trackerLog,       \* history: the completed mark and notify calls, in order of return
    sweep,            \* the frame of the scan_for_deleted_files call
    \* ---- SearchService (src/app/services/search_service.py)
    search,           \* the frame of the search request in progress or answered
    similar,          \* the frame of the find_similar_files request
    \* ---- ModelLoader (src/app/core/model_loader.py)
    model,            \* self._model: the cached model instance, or NoModel
    processor,        \* self._processor: the cached processor instance, or NoModel
    loading_lock,     \* self._loading_lock: the asyncio.Lock and its waiters, first come first
    loaders,          \* caller -> the frame of its load() call
    load_calls,       \* history: the number of calls of _load_model_sync so far
    loaderLog,        \* history: the load() calls that have returned or raised, in order
    \* ---- FileWatcher and the event loop (src/app/monitoring/watcher.py)
    observers,        \* self.observers: the started observers, each with its watch
    ready,            \* the callbacks the event loop has still to run, first come first
    dereg,            \* the frame of the delete_folder request
    forwarded         \* history: the events the watched handlers have forwarded, in order

varsHandler == <<now, last_event_time, queue, notifLog>>
varsStore == <<disk, folders, files, embeddings, jobs>>
varsScan == <<scan, active_jobs, faults, provider_none>>
varsWorker == <<max_concurrent_jobs, semaphore, worker_running, tasks, events_queued>>
varsTracker == <<notifying, trackerLog>>
varsSearch == <<search, similar>>
varsLoader == <<model, processor, loading_lock, loaders, load_calls, loaderLog>>
varsWatcher == <<observers, ready, dereg, forwarded>>
varsSweep == <<sweep>>

vars == <<now, last_event_time, queue, notifLog,
          disk, folders, files, embeddings, jobs,
          scan, active_jobs, faults, provider_none,
          max_concurrent_jobs, semaphore, worker_running, tasks, events_queued,
          notifying, trackerLog, search, similar,
          model, processor, loading_lock, loaders, load_calls, loaderLog,
          observers, ready, dereg, forwarded, sweep>>

\* what the actions of one component leave unchanged
NotHandler == <<varsStore, varsScan, varsWorker, varsTracker, varsSearch, varsLoader, varsWatcher, varsSweep>>
NotScan == <<varsHandler, varsWorker, varsTracker, varsSearch, varsLoader, varsWatcher, varsSweep>>
NotWorker == <<now, last_event_time, notifLog, varsScan, varsTracker, varsSearch, varsLoader, varsWatcher, varsSweep>>
NotTracker == <<varsHandler, varsScan, varsWorker, varsSearch, varsLoader, varsWatcher, varsSweep>>
NotSearch == <<varsHandler, varsScan, varsWorker, varsTracker, varsLoader, varsWatcher, varsSweep>>
NotLoader ==
    <<varsHandler, varsStore, varsScan, varsWorker, varsTracker, varsSearch, varsWatcher,
      varsSweep>>
NotWatcher == <<notifLog, varsScan, varsTracker, varsSearch, varsLoader, varsSweep>>

-----------------------------------------------------------------------------
(***************************************************************************)
(* Paths.  A path is a sequence of tokens: single characters, and a final  *)
(* token that holds the suffix (extension) of the file name.  A character  *)
(* prefix of a path is a prefix of the sequence.                           *)
(***************************************************************************)

AUDIO_EXTENSIONS == {".mp3", ".wav", ".flac", ".aac", ".ogg", ".m4a", ".wma", ".opus"}

VIDEO_EXTENSIONS == {".mp4", ".avi", ".mov", ".mkv", ".webm", ".flv", ".wmv", ".m4v"}

\* str.lower() on the suffixes that occur in the model
Lower(s) ==
    CASE s = ".WAV" -> ".wav"
      [] s = ".MP4" -> ".mp4"
      [] OTHER -> s

\* Path(file_path).suffix: the last token when it starts with a dot
Suffix(path) ==
    IF Len(path) > 0
       /\ Lower(path[Len(path)]) \in AUDIO_EXTENSIONS \cup VIDEO_EXTENSIONS \cup {".txt"}
    THEN path[Len(path)]
    ELSE ""

\* ModalityDetector.detect: "audio", "video" or "none"
detect_mutant(path) ==
    LET ext == Lower(Suffix(path))
    IN  IF ext \in AUDIO_EXTENSIONS THEN "audio"
        ELSE IF ext \in VIDEO_EXTENSIONS THEN "audio_video"
        ELSE "none"
detect(path) ==
    LET ext == Lower(Suffix(path))
    IN  IF ext \in AUDIO_EXTENSIONS THEN "audio"
        ELSE IF ext \in VIDEO_EXTENSIONS THEN "video"
        ELSE "none"

is_supported(path) == detect(path) # "none"

-----------------------------------------------------------------------------
(***************************************************************************)
(* The event handler of one watched folder.                                *)
(***************************************************************************)

\* cooldown_seconds: float = 2.0
cooldown_seconds == 2

\* bounds of the handler's model
MaxNotifs == 3

\* the clock runs over StartTime .. MaxTime; time.time() is far above the
\* cooldown, so that a path absent from the map (default 0) is never suppressed
StartTime == cooldown_seconds + 1
MaxTime == StartTime + cooldown_seconds

PathX == <<"/", "a", "/", "x", ".wav">>
PathY == <<"/", "a", "/", "y", ".mp4">>
PathN == <<"/", "a", "/", "n", ".txt">>
HandlerPaths == {PathX, PathY, PathN}
HandlerMoves == {<<PathX, PathY>>, <<PathY, PathX>>, <<PathX, PathN>>, <<PathN, PathX>>}

\* self.last_event_time.get(path, 0)
LastTime(map, path) == IF path \in DOMAIN map THEN map[path] ELSE 0

\* the cooldown test of _should_process: TRUE when the event is suppressed
InCooldownMutant(map, path, t) == t - LastTime(map, path) <= cooldown_seconds
InCooldown(map, path, t) == t - LastTime(map, path) < cooldown_seconds

\* the map after a call of _should_process that returned `ok`
MarkTimeMutant(map, path, t, ok) ==
    IF is_supported(path)
    THEN [p \in DOMAIN map \cup {path} |-> IF p = path THEN t ELSE map[p]]
    ELSE map
MarkTime(map, path, t, ok) ==
    IF ok
    THEN [p \in DOMAIN map \cup {path} |-> IF p = path THEN t ELSE map[p]]
    ELSE map

\* _should_process(path) at time t: the result and the map it leaves
should_process(map, path, t) ==
    LET ok == is_supported(path) /\ ~InCooldown(map, path, t)
    IN  [ok |-> ok, map |-> MarkTime(map, path, t, ok)]

\* the event _queue_event puts on the queue
Event(action, path) == [action |-> action, folder_id |-> 1, path |-> path]

\* notifLog holds every file notification that reached the cooldown test or
\* the queue, with the events it enqueued
Notif(kind, src, dest, enq) ==
    [kind |-> kind, src |-> src, dest |-> dest, t |-> now, enq |-> enq]

Logged(kind, src, dest, enq) ==
    IF is_supported(src) \/ is_supported(dest) \/ enq # <<>>
    THEN Append(notifLog, Notif(kind, src, dest, enq))
    ELSE notifLog

\* the body of on_created / on_modified for a file
OnCreatedOrModified(kind, action, path) ==
    LET r == should_process(last_event_time, path, now)
        enq == IF r.ok THEN <<Event(action, path)>> ELSE <<>>
    IN  /\ last_event_time' = r.map
        /\ queue' = queue \o enq
        /\ notifLog' = Logged(kind, path, <<>>, enq)
        /\ UNCHANGED <<now, NotHandler>>

on_created(path) ==
    /\ Len(notifLog) < MaxNotifs
    /\ OnCreatedOrModified("created", "create", path)

on_modified(path) ==
    /\ Len(notifLog) < MaxNotifs
    /\ OnCreatedOrModified("modified", "modify", path)

on_deleted_mutant(path) ==
    /\ Len(notifLog) < MaxNotifs
    /\ queue' = Append(queue, Event("delete", path))
    /\ notifLog' = Logged("deleted", path, <<>>, <<Event("delete", path)>>)
    /\ last_event_time' = [p \in DOMAIN last_event_time \ {path} |-> last_event_time[p]]
    /\ UNCHANGED <<now, NotHandler>>
on_deleted(path) ==
    /\ Len(notifLog) < MaxNotifs
    /\ queue' = Append(queue, Event("delete", path))
    /\ notifLog' = Logged("deleted", path, <<>>, <<Event("delete", path)>>)
    /\ UNCHANGED <<now, last_event_time, NotHandler>>

on_moved(src, dest) ==
    /\ Len(notifLog) < MaxNotifs
    /\ LET r1 == should_process(last_event_time, src, now)
           r2 == should_process(r1.map, dest, now)
           enq == (IF r1.ok THEN <<Event("delete", src)>> ELSE <<>>)
                  \o (IF r2.ok THEN <<Event("create", dest)>> ELSE <<>>)
       IN  /\ last_event_time' = r2.map
           /\ queue' = queue \o enq
           /\ notifLog' = Logged("moved", src, dest, enq)
    /\ UNCHANGED <<now, NotHandler>>

\* every callback returns at once when event.is_directory
on_directory_event ==
    /\ Len(notifLog) < MaxNotifs
    /\ UNCHANGED <<now, last_event_time, queue, notifLog, NotHandler>>

\* time passes between two notifications
Tick ==
    /\ now < MaxTime
    /\ now' = now + 1
    /\ UNCHANGED <<last_event_time, queue, notifLog, NotHandler>>

HandlerIdle ==
    /\ now = StartTime
    /\ last_event_time = <<>>
    /\ queue = <<>>
    /\ notifLog = <<>>

HandlerStep ==
    \/ \E p \in HandlerPaths : on_created(p)
    \/ \E p \in HandlerPaths : on_modified(p)
    \/ \E p \in HandlerPaths : on_deleted(p)
    \/ \E m \in HandlerMoves : on_moved(m[1], m[2])
    \/ on_directory_event
    \/ Tick

-----------------------------------------------------------------------------
(***************************************************************************)
(* Properties of the event handler.                                        *)
(***************************************************************************)

LogIdx == 1 .. Len(notifLog)

\* notification i enqueued an event for path p
ForwardsFor(i, p) ==
    \E k \in 1 .. Len(notifLog[i].enq) : notifLog[i].enq[k].path = p

\* notification i enqueued an event for p that went through the cooldown test
CooldownForwards(i, p) ==
    /\ notifLog[i].kind # "deleted"
    /\ ForwardsFor(i, p)

\* at notification i the window has elapsed since the last forwarded event for p
WindowElapsedAt(i, p) ==
    \A k \in 1 .. (i - 1) :
        ForwardsFor(k, p) => notifLog[i].t - notifLog[k].t >= cooldown_seconds

\* at notification i path p is suppressed by the cooldown
Suppressed(i, p) ==
    \E k \in 1 .. (i - 1) :
        /\ CooldownForwards(k, p)
        /\ notifLog[i].t - notifLog[k].t < cooldown_seconds

DeleteAlwaysForwarded ==
    \A i \in LogIdx :
        /\ notifLog[i].kind = "deleted" =>
               notifLog[i].enq = <<Event("delete", notifLog[i].src)>>
        /\ (notifLog[i].kind = "moved" /\ is_supported(notifLog[i].src)) =>
               \E k \in 1 .. Len(notifLog[i].enq) :
                   notifLog[i].enq[k] = Event("delete", notifLog[i].src)

\* C5: a move of a supported file to a supported path enqueues exactly one
\* delete for the old path, whatever the cooldown state of the old path,
\* followed by one create for the new path iff the new path is not suppressed
\* by the cooldown.
MoveIsDeleteThenCreate ==
    \A i \in LogIdx :
        ( /\ notifLog[i].kind = "moved"
          /\ is_supported(notifLog[i].src)
          /\ is_supported(notifLog[i].dest) )
        => notifLog[i].enq =
               <<Event("delete", notifLog[i].src)>>
               \o (IF Suppressed(i, notifLog[i].dest)
                   THEN <<>>
                   ELSE <<Event("create", notifLog[i].dest)>>)

\* C15: no event is ever enqueued for a path whose extension is not
\* supported, whatever the action (create, modify, delete, either side of a
\* move), and such a path never enters the cooldown map.
UnsupportedNeverEnqueued ==
    /\ \A k \in 1 .. Len(queue) : is_supported(queue[k].path)
    /\ \A p \in DOMAIN last_event_time : is_supported(p)

\* C34: a delete notification handled by on_deleted neither reads nor
\* writes the cooldown map: it enqueues its delete whatever the map holds
\* and leaves the map as it is; so a create or modify for a path that
\* arrives within the cooldown of an earlier forwarded create or modify for
\* the path is dropped, also when a delete for the path was forwarded in
\* between.
DeleteLeavesCooldown ==
    /\ [][ (Len(notifLog') > Len(notifLog) /\ notifLog'[Len(notifLog')].kind = "deleted")
             => /\ last_event_time' = last_event_time
                /\ queue' = Append(queue, Event("delete", notifLog'[Len(notifLog')].src)) ]_vars
    /\ [](\A i \in LogIdx :
            ( /\ notifLog[i].kind \in {"created", "modified"}
              /\ \E k \in 1 .. (i - 1) :
                    /\ notifLog[k].kind \in {"created", "modified"}
                    /\ ForwardsFor(k, notifLog[i].src)
                    /\ notifLog[i].t - notifLog[k].t < cooldown_seconds )
            => notifLog[i].enq = <<>>)

\* a create was forwarded, then the delete of the same path, and a modify
\* of the path that came within the window of the create was dropped
DeleteLeavesCooldownWitness ==
    /\ Len(notifLog) = 3
    /\ notifLog[1].kind = "created" /\ notifLog[1].src = PathX /\ notifLog[1].enq # <<>>
    /\ notifLog[2].kind = "deleted" /\ notifLog[2].src = PathX /\ notifLog[2].enq # <<>>
    /\ notifLog[3].kind = "modified" /\ notifLog[3].src = PathX /\ notifLog[3].enq = <<>>
    /\ notifLog[3].t - notifLog[1].t < cooldown_seconds
    /\ Len(queue) = 2

-----------------------------------------------------------------------------
(***************************************************************************)
(* The storage: Folder, File, Embedding and IndexingJob rows, and the CRUD *)
(* operations on them.  A row's id is its position in its table.  A CRUD   *)
(* operation is one storage call: it takes effect in one step.             *)
(***************************************************************************)

None == "None"

\* the provider's None: no vector
NoVector == <<>>

DirA == <<"/", "a">>
FileX == <<"/", "a", "/", "x", ".wav">>
FileY == <<"/", "a", "/", "y", ".mp4">>
FileZ == <<"/", "a", "/", "z", ".wav">>
FileE == <<"/", "a", "/", "e", ".mp3">>
DirB == <<"/", "b">>
FileW == <<"/", "b", "/", "w", ".wav">>
DirV == <<"/", "a", "/", "v">>
FileV == <<"/", "a", "/", "v", "/", "w", ".wav">>
DirAB == <<"/", "a", "b">>
FileAB == <<"/", "a", "b", "/", "x", ".wav">>

\* the order in which a scan of the tree meets the files
TreeOrder == <<FileX, FileY, FileZ, FileE, FileV, FileW, FileAB>>

\* the vectors the embedding provider can return
Vec1 == <<1, 0>>
Vec2 == <<1, 1>>
ProviderVectors == {Vec1, Vec2}

\* serialize_array / deserialize_array: np.save writes a header with the
\* shape, then the items; np.load reads the header and then that many items
serialize_array(array) == <<Len(array)>> \o array
deserialize_array(blob) == [k \in 1 .. blob[1] |-> blob[k + 1]]

\* str.startswith
StartsWith(path, prefix) ==
    /\ Len(prefix) <= Len(path)
    /\ \A k \in 1 .. Len(prefix) : path[k] = prefix[k]

SeqToSet(q) == {q[k] : k \in 1 .. Len(q)}

\* a set of row ids as the sequence a query yields: in table order
RECURSIVE Ascending(_)
Ascending(ids) ==
    IF ids = {} THEN <<>>
    ELSE LET m == CHOOSE x \in ids : \A y \in ids : x <= y
         IN  <<m>> \o Ascending(ids \ {m})

\* FolderCRUD.get: the id of the row, or 0
FolderGet(folder_id) ==
    IF folder_id \in 1 .. Len(folders) /\ folders[folder_id].exists
    THEN folder_id ELSE 0

\* FolderCRUD.list_all(active_only=True): ids in table order
FolderListActive ==
    Ascending({k \in 1 .. Len(folders) : folders[k].exists /\ folders[k].is_active})

\* FileCRUD.get_by_path: the id of the row with that path, or 0
FileGetByPath(path) ==
    IF \E k \in 1 .. Len(files) : files[k].exists /\ files[k].path = path
    THEN CHOOSE k \in 1 .. Len(files) : files[k].exists /\ files[k].path = path
    ELSE 0

\* FileCRUD.get
FileGet(file_id) ==
    IF file_id \in 1 .. Len(files) /\ files[file_id].exists THEN file_id ELSE 0

\* the File row FileCRUD.create inserts
NewFile(folder_id, path, modality) ==
    [exists |-> TRUE, folder_id |-> folder_id, path |-> path, modality |-> modality,
     is_deleted |-> FALSE, deletion_notified |-> FALSE, indexed_at |-> FALSE]

\* EmbeddingCRUD.get_by_file: ids in table order
EmbeddingGetByFile(file_id) ==
    Ascending({k \in 1 .. Len(embeddings) :
                  embeddings[k].exists /\ embeddings[k].file_id = file_id})

\* the Embedding row EmbeddingCRUD.create inserts
NewEmbedding(file_id, vector, modality, embedding_type) ==
    [exists |-> TRUE, file_id |-> file_id, modality |-> modality,
     embedding_type |-> embedding_type, vector |-> serialize_array(vector)]

\* f"{modality}_embeds"
EmbeddingType(modality) ==
    CASE modality = "audio" -> "audio_embeds"
      [] modality = "video" -> "video_embeds"
      [] OTHER -> "None_embeds"

\* the IndexingJob row IndexingJobCRUD.create inserts
NewJob(job_type, folder_id) ==
    [job_type |-> job_type, folder_id |-> folder_id, status |-> "pending",
     total_files |-> 0, processed_files |-> 0, failed_files |-> 0,
     error_message |-> None, started_at |-> FALSE, completed_at |-> FALSE]

\* IndexingJobCRUD.update_status: the row after the call
update_status_mutant(job, status, error_message) ==
    [job EXCEPT
        !.status = IF status = "running" THEN @ ELSE status,
        !.error_message = IF error_message # None THEN error_message ELSE @,
        !.started_at = IF status = "running" THEN TRUE ELSE @,
        !.completed_at = IF status \in {"completed", "failed"} THEN TRUE ELSE @]
update_status(job, status, error_message) ==
    [job EXCEPT
        !.status = status,
        !.error_message = IF error_message # None THEN error_message ELSE @,
        !.started_at = IF status = "running" THEN TRUE ELSE @,
        !.completed_at = IF status \in {"completed", "failed"} THEN TRUE ELSE @]

\* IndexingJobCRUD.increment_progress: the row after the call
increment_progress_mutant(job, processed, failed) ==
    [job EXCEPT
        !.processed_files = @ + processed + failed,
        !.failed_files = @ + failed]
increment_progress(job, processed, failed) ==
    [job EXCEPT
        !.processed_files = @ + processed,
        !.failed_files = @ + failed]

\* IndexingJobCRUD.set_total_files: the row after the call
set_total_files(job, total) == [job EXCEPT !.total_files = total]

\* FileProcessor.validate_file
validate_file(path) ==
    /\ path \in DOMAIN disk
    /\ disk[path] # "empty"
    /\ is_supported(path)

-----------------------------------------------------------------------------
(***************************************************************************)
(* IndexingService: index_folder creates a job and a task that runs        *)
(* _perform_indexing; the tasks of several jobs interleave at their        *)
(* awaits.  A frame holds the position and the locals of one task.         *)
(***************************************************************************)

\* bounds of the scan model: the storage and provider calls that raise, and
\* the jobs that index_folder starts
MaxFaults == 1
MaxJobs == 1

\* the requests index_folder is called with: every active folder, folder 1,
\* and a folder that is not registered
IndexRequests ==
    { [folder_id |-> 0, mode |-> "full"],
      [folder_id |-> 1, mode |-> "incremental"],
      [folder_id |-> 2, mode |-> "full"] }

JobIds == 1 .. Len(jobs)

\* the extensions _scan_folder looks for under a folder of that modality
ScanExtensions(modality) ==
    (IF modality \in {"all", "audio"} THEN AUDIO_EXTENSIONS ELSE {})
    \cup (IF modality \in {"all", "video", "audio_video"} THEN VIDEO_EXTENSIONS ELSE {})

\* _scan_folder: folder.rglob(f"*{ext}") keeps the files below the folder
\* whose name ends with the extension as written (the order in which the
\* tree yields them is taken to be TreeOrder)
RECURSIVE ScanFrom(_, _, _)
ScanFrom(folder_path, modality, k) ==
    IF k > Len(TreeOrder) THEN <<>>
    ELSE LET path == TreeOrder[k]
             hit == /\ path \in DOMAIN disk
                    /\ StartsWith(path, folder_path \o <<"/">>)
                    /\ Suffix(path) \in ScanExtensions(modality)
         IN  (IF hit THEN <<path>> ELSE <<>>) \o ScanFrom(folder_path, modality, k + 1)

scan_folder(folder_path, modality) == ScanFrom(folder_path, modality, 1)

\* all_files: the files of every folder to index, folder after folder
RECURSIVE CollectFiles(_, _)
CollectFiles(folder_ids, k) ==
    IF k > Len(folder_ids) THEN <<>>
    ELSE scan_folder(folders[folder_ids[k]].path, folders[folder_ids[k]].modality)
         \o CollectFiles(folder_ids, k + 1)

\* the first active folder, in table order, whose path the file's path starts with
OwningFolderMutant(path) ==
    LET hits == {k \in 1 .. Len(FolderListActive) :
                    StartsWith(path, folders[FolderListActive[k]].path)}
    IN  IF hits = {} THEN 0
        ELSE FolderListActive[CHOOSE k \in hits : \A m \in hits : k >= m]
OwningFolder(path) ==
    LET hits == {k \in 1 .. Len(FolderListActive) :
                    StartsWith(path, folders[FolderListActive[k]].path)}
    IN  IF hits = {} THEN 0
        ELSE FolderListActive[CHOOSE k \in hits : \A m \in hits : k <= m]

NewFrame(folder_id, mode) ==
    [pc |-> "start", folder_id |-> folder_id, mode |-> mode, folders |-> <<>>,
     all_files |-> <<>>, i |-> 0, fi |-> 0, file_id |-> 0, owner |-> 0,
     embedding |-> NoVector, existing |-> <<>>, caught |-> 0]

CurrentPath(fr) == fr.all_files[fr.i]

\* _index_file up to its first await: validate_file
BeginFile(fr, i) ==
    [fr EXCEPT !.i = i, !.file_id = 0, !.owner = 0, !.embedding = NoVector,
               !.existing = <<>>,
               !.pc = IF validate_file(fr.all_files[i]) THEN "get_by_path" ELSE "inc_ok"]

\* the loop over all_files after file fr.i has been counted
NextFile(fr) ==
    IF fr.i < Len(fr.all_files)
    THEN BeginFile(fr, fr.i + 1)
    ELSE [fr EXCEPT !.pc = "update_folders", !.fi = 1]

\* index_folder: create the job row (pending) and its task
index_folder(folder_id, mode) ==
    /\ jobs' = Append(jobs, NewJob(IF mode = "full" THEN "full_scan" ELSE "incremental",
                                   folder_id))
    /\ scan' = Append(scan, NewFrame(folder_id, mode))
    /\ active_jobs' = active_jobs \cup {Len(jobs) + 1}
    /\ provider_none' = Append(provider_none, 0)
    /\ UNCHANGED <<disk, folders, files, embeddings, faults, NotScan>>

\* update_status(job_id, "running"), before the try block
MarkRunning(j) ==
    /\ scan[j].pc = "start"
    /\ jobs' = [jobs EXCEPT ![j] = update_status(@, "running", None)]
    /\ scan' = [scan EXCEPT ![j].pc = "get_folders"]
    /\ UNCHANGED <<disk, folders, files, embeddings, active_jobs, faults, provider_none, NotScan>>

\* FolderCRUD.get / list_all, then _scan_folder over each folder
GetFolders(j) ==
    /\ scan[j].pc = "get_folders"
    /\ LET fid == scan[j].folder_id
           fs == IF fid # 0
                 THEN (IF FolderGet(fid) # 0 /\ folders[fid].is_active
                       THEN <<fid>> ELSE <<>>)
                 ELSE FolderListActive
       IN  scan' = [scan EXCEPT ![j] =
                      IF fs = <<>>
                      THEN [@ EXCEPT !.pc = "complete_empty"]
                      ELSE [@ EXCEPT !.pc = "set_total", !.folders = fs,
                                     !.all_files = CollectFiles(fs, 1)]]
    /\ UNCHANGED <<varsStore, active_jobs, faults, provider_none, NotScan>>

\* no folder to index: update_status(job_id, "completed"), return, finally
CompleteEmpty(j) ==
    /\ scan[j].pc = "complete_empty"
    /\ jobs' = [jobs EXCEPT ![j] = update_status(@, "completed", None)]
    /\ scan' = [scan EXCEPT ![j].pc = "done"]
    /\ active_jobs' = active_jobs \ {j}
    /\ UNCHANGED <<disk, folders, files, embeddings, faults, provider_none, NotScan>>

\* set_total_files, then the loop enters _index_file for the first file
SetTotal(j) ==
    /\ scan[j].pc = "set_total"
    /\ jobs' = [jobs EXCEPT ![j] = set_total_files(@, Len(scan[j].all_files))]
    /\ scan' = [scan EXCEPT ![j] = NextFile(@)]
    /\ UNCHANGED <<disk, folders, files, embeddings, active_jobs, faults, provider_none, NotScan>>

\* _index_file: FileCRUD.get_by_path
GetByPath(j) ==
    /\ scan[j].pc = "get_by_path"
    /\ LET f == FileGetByPath(CurrentPath(scan[j]))
       IN  scan' = [scan EXCEPT ![j] =
                      IF f = 0 THEN [@ EXCEPT !.pc = "list_folders"]
                      ELSE [@ EXCEPT !.pc = "embed", !.file_id = f]]
    /\ UNCHANGED <<varsStore, active_jobs, faults, provider_none, NotScan>>

\* _index_file: FolderCRUD.list_all and the search for the owning folder
ListFolders(j) ==
    /\ scan[j].pc = "list_folders"
    /\ LET o == OwningFolder(CurrentPath(scan[j]))
       IN  scan' = [scan EXCEPT ![j] =
                      IF o = 0 THEN [@ EXCEPT !.pc = "inc_ok"]
                      ELSE [@ EXCEPT !.pc = "create_file", !.owner = o]]
    /\ UNCHANGED <<varsStore, active_jobs, faults, provider_none, NotScan>>

\* _index_file: FileCRUD.create; File.path is unique, so the insert of a
\* path that is already stored raises
CreateFile(j) ==
    /\ scan[j].pc = "create_file"
    /\ LET path == CurrentPath(scan[j])
       IN  IF FileGetByPath(path) # 0
           THEN /\ scan' = [scan EXCEPT ![j].pc = "inc_fail"]
                /\ UNCHANGED files
           ELSE /\ files' = Append(files, NewFile(scan[j].owner, path, detect(path)))
                /\ scan' = [scan EXCEPT ![j].pc = "embed", ![j].file_id = Len(files) + 1]
    /\ UNCHANGED <<disk, folders, embeddings, jobs, active_jobs, faults, provider_none, NotScan>>

\* _index_file: generate_embedding_for_file returns a vector or None
Embed(j) ==
    /\ scan[j].pc = "embed"
    /\ \E v \in ProviderVectors \cup {NoVector} :
          /\ scan' = [scan EXCEPT ![j].embedding = v,
                                  ![j].pc = IF v = NoVector THEN "inc_ok" ELSE "get_embs"]
          /\ provider_none' = [provider_none EXCEPT ![j] = IF v = NoVector THEN @ + 1 ELSE @]
    /\ UNCHANGED <<varsStore, active_jobs, faults, NotScan>>

\* _index_file: EmbeddingCRUD.get_by_file
GetEmbs(j) ==
    /\ scan[j].pc = "get_embs"
    /\ scan' = [scan EXCEPT ![j].existing = EmbeddingGetByFile(scan[j].file_id),
                            ![j].pc = "upsert"]
    /\ UNCHANGED <<varsStore, active_jobs, faults, provider_none, NotScan>>

\* the embeddings table after _index_file has written: the rows it read are
\* overwritten, or a row is inserted when it read none
UpsertRowsMutant(fr) ==
    Append(embeddings,
           NewEmbedding(fr.file_id, fr.embedding, detect(CurrentPath(fr)),
                        EmbeddingType(detect(CurrentPath(fr)))))
UpsertRows(fr) ==
    IF fr.existing # <<>>
    THEN [k \in 1 .. Len(embeddings) |->
            IF k \in SeqToSet(fr.existing)
            THEN [embeddings[k] EXCEPT !.vector = serialize_array(fr.embedding)]
            ELSE embeddings[k]]
    ELSE Append(embeddings,
                NewEmbedding(fr.file_id, fr.embedding, detect(CurrentPath(fr)),
                             EmbeddingType(detect(CurrentPath(fr)))))

\* FileCRUD.update_indexed_at: the row after the call
update_indexed_at_mutant(file) == [file EXCEPT !.indexed_at = TRUE, !.is_deleted = FALSE]
update_indexed_at(file) == [file EXCEPT !.indexed_at = TRUE]

\* _index_file: overwrite and FileCRUD.update_indexed_at, or EmbeddingCRUD.create
Upsert(j) ==
    /\ scan[j].pc = "upsert"
    /\ embeddings' = UpsertRows(scan[j])
    /\ files' = IF scan[j].existing # <<>> /\ FileGet(scan[j].file_id) # 0
                THEN [files EXCEPT ![scan[j].file_id] = update_indexed_at(@)]
                ELSE files
    /\ scan' = [scan EXCEPT ![j].pc = "inc_ok"]
    /\ UNCHANGED <<disk, folders, jobs, active_jobs, faults, provider_none, NotScan>>

\* _index_file returned: increment_progress(job_id)
IncOk(j) ==
    /\ scan[j].pc = "inc_ok"
    /\ jobs' = [jobs EXCEPT ![j] = increment_progress(@, 1, 0)]
    /\ scan' = [scan EXCEPT ![j] = NextFile(@)]
    /\ UNCHANGED <<disk, folders, files, embeddings, active_jobs, faults, provider_none, NotScan>>

\* _index_file raised: increment_progress(job_id, failed=1)
IncFail(j) ==
    /\ scan[j].pc = "inc_fail"
    /\ jobs' = [jobs EXCEPT ![j] = increment_progress(@, 1, 1)]
    /\ scan' = [scan EXCEPT ![j] = NextFile(@)]
    /\ UNCHANGED <<disk, folders, files, embeddings, active_jobs, faults, provider_none, NotScan>>

\* FolderCRUD.update_last_indexed for the next folder of the job
UpdateFolders(j) ==
    /\ scan[j].pc = "update_folders"
    /\ LET fr == scan[j]
           fid == fr.folders[fr.fi]
       IN  /\ folders' = IF FolderGet(fid) # 0
                         THEN [folders EXCEPT ![fid].last_indexed_at = TRUE]
                         ELSE folders
           /\ scan' = [scan EXCEPT ![j] =
                          IF fr.fi < Len(fr.folders)
                          THEN [@ EXCEPT !.fi = fr.fi + 1]
                          ELSE [@ EXCEPT !.pc = "mark_completed"]]
    /\ UNCHANGED <<disk, files, embeddings, jobs, active_jobs, faults, provider_none, NotScan>>

\* update_status(job_id, "completed"), then finally
MarkCompleted(j) ==
    /\ scan[j].pc = "mark_completed"
    /\ jobs' = [jobs EXCEPT ![j] = update_status(@, "completed", None)]
    /\ scan' = [scan EXCEPT ![j].pc = "done"]
    /\ active_jobs' = active_jobs \ {j}
    /\ UNCHANGED <<disk, folders, files, embeddings, faults, provider_none, NotScan>>

\* except Exception: update_status(job_id, "failed", str(e)), then finally
MarkFailed(j) ==
    /\ scan[j].pc = "mark_failed"
    /\ jobs' = [jobs EXCEPT ![j] = update_status(@, "failed", "error")]
    /\ scan' = [scan EXCEPT ![j].pc = "done"]
    /\ active_jobs' = active_jobs \ {j}
    /\ UNCHANGED <<disk, folders, files, embeddings, faults, provider_none, NotScan>>

\* where control goes when the call a task is waiting on raises: out of the
\* task before the try block, to the per-file handler inside _index_file and
\* the first increment_progress, to the job's handler elsewhere, and out of
\* the task (through finally) from the job's handler itself
InFileTry(pc) ==
    pc \in {"get_by_path", "list_folders", "create_file", "embed", "get_embs", "upsert",
            "inc_ok"}
HandlerOfMutant(pc) == IF pc \in {"start", "mark_failed"} THEN "crashed" ELSE "mark_failed"
HandlerOf(pc) ==
    CASE pc = "start" -> "crashed"
      [] InFileTry(pc) -> "inc_fail"
      [] pc = "mark_failed" -> "crashed"
      [] OTHER -> "mark_failed"

\* a storage call, or the provider's model load, raises; caught is
\* history: the exceptions of the job raised inside the per-file try block
Raise(j) ==
    /\ scan[j].pc \notin {"done", "crashed"}
    /\ faults < MaxFaults
    /\ faults' = faults + 1
    /\ scan' = [scan EXCEPT ![j].pc = HandlerOf(scan[j].pc),
                            ![j].caught = IF InFileTry(scan[j].pc) THEN @ + 1 ELSE @]
    /\ active_jobs' = IF scan[j].pc = "mark_failed" THEN active_jobs \ {j} ELSE active_jobs
    /\ UNCHANGED <<varsStore, provider_none, NotScan>>

\* the folders and the disk that a run starts from
FolderRow(path, modality) ==
    [exists |-> TRUE, path |-> path, modality |-> modality, is_active |-> TRUE,
     last_indexed_at |-> FALSE]

DiskLayouts ==
    { [p \in {FileX, FileY, FileZ} |-> "file"],
      [p \in {FileX} |-> "file"],
      [p \in {FileX, FileE} |-> IF p = FileE THEN "empty" ELSE "file"] }

StoreIdle ==
    /\ disk = [p \in {FileX} |-> "file"]
    /\ folders = <<FolderRow(DirA, "all")>>
    /\ files = <<>>
    /\ embeddings = <<>>
    /\ jobs = <<>>

ScanIdle ==
    /\ scan = <<>>
    /\ active_jobs = {}
    /\ faults = 0
    /\ provider_none = <<>>

\* a step of the task of some job
ScanTaskStep ==
    \/ \E j \in JobIds : MarkRunning(j)
    \/ \E j \in JobIds : GetFolders(j)
    \/ \E j \in JobIds : CompleteEmpty(j)
    \/ \E j \in JobIds : SetTotal(j)
    \/ \E j \in JobIds : GetByPath(j)
    \/ \E j \in JobIds : ListFolders(j)
    \/ \E j \in JobIds : CreateFile(j)
    \/ \E j \in JobIds : Embed(j)
    \/ \E j \in JobIds : GetEmbs(j)
    \/ \E j \in JobIds : Upsert(j)
    \/ \E j \in JobIds : IncOk(j)
    \/ \E j \in JobIds : IncFail(j)
    \/ \E j \in JobIds : UpdateFolders(j)
    \/ \E j \in JobIds : MarkCompleted(j)
    \/ \E j \in JobIds : MarkFailed(j)
    \/ \E j \in JobIds : Raise(j)

-----------------------------------------------------------------------------
(***************************************************************************)
(* Properties of the scan jobs.                                            *)
(***************************************************************************)

\* the moves of a job's status that the lifecycle allows
LifecycleMove(a, b) ==
    \/ a = b
    \/ a = "pending" /\ b = "running"
    \/ a = "running" /\ b \in {"completed", "failed"}

OneEmbeddingPerFileAndType ==
    \A a \in 1 .. Len(embeddings), b \in 1 .. Len(embeddings) :
        ( /\ a # b
          /\ embeddings[a].exists /\ embeddings[b].exists
          /\ embeddings[a].file_id = embeddings[b].file_id )
        => embeddings[a].embedding_type # embeddings[b].embedding_type

\* C7: a job over three matching files, for one of which the provider gives
\* no vector (and nothing raises), ends completed with total_files = 3,
\* processed_files = 2 and failed_files = 1.
ProviderFailureCounted ==
    \A j \in JobIds :
        ( /\ scan[j].pc = "done"
          /\ faults = 0
          /\ Len(scan[j].all_files) = 3
          /\ provider_none[j] = 1 )
        => /\ jobs[j].status = "completed"
           /\ jobs[j].total_files = 3
           /\ jobs[j].processed_files = 2
           /\ jobs[j].failed_files = 1

\* C25: in a scan job an exception raised while one file is processed is
\* caught for that file alone: failed_files is incremented and the job goes
\* on to the next enumerated file, one file at a time and in order; a job
\* whose only exceptions were of this kind ends completed, with every
\* enumerated file counted and as many failures as exceptions.
FileFailureIsolated ==
    /\ [](\A j \in JobIds :
            (scan[j].pc = "done" /\ scan[j].caught > 0 /\ faults = scan[j].caught)
            => /\ jobs[j].status = "completed"
               /\ jobs[j].failed_files = scan[j].caught
               /\ jobs[j].total_files = Len(scan[j].all_files)
               /\ jobs[j].processed_files = jobs[j].total_files)
    /\ [][ \A j \in JobIds :
             /\ (InFileTry(scan[j].pc) /\ scan'[j].caught > scan[j].caught)
                => /\ scan'[j].pc = "inc_fail"
                   /\ scan'[j].i = scan[j].i
                   /\ jobs'[j] = jobs[j]
             /\ (scan[j].pc = "inc_fail" /\ scan'[j] # scan[j] /\ faults' = faults)
                => /\ jobs'[j].failed_files = jobs[j].failed_files + 1
                   /\ jobs'[j].status = "running"
                   /\ IF scan[j].i < Len(scan[j].all_files)
                      THEN scan'[j].i = scan[j].i + 1 /\ scan'[j].pc # "update_folders"
                      ELSE scan'[j].pc = "update_folders" ]_vars

\* a job over three files has ended completed after an exception for the
\* first of them: that file has its row and no embedding, the two files
\* after it have been indexed
FileFailureIsolatedWitness ==
    \E j \in JobIds :
        /\ scan[j].pc = "done"
        /\ scan[j].caught = 1
        /\ jobs[j].status = "completed"
        /\ jobs[j].total_files = 3
        /\ jobs[j].failed_files = 1
        /\ Len(files) = 3
        /\ EmbeddingGetByFile(FileGetByPath(scan[j].all_files[1])) = <<>>
        /\ EmbeddingGetByFile(FileGetByPath(scan[j].all_files[2])) # <<>>
        /\ EmbeddingGetByFile(FileGetByPath(scan[j].all_files[3])) # <<>>

\* the active folders, registered or not before folder o, whose path is a
\* prefix of the path
Matching(path) ==
    {k \in 1 .. Len(folders) :
        folders[k].exists /\ folders[k].is_active /\ StartsWith(path, folders[k].path)}

\* C29: when a scan meets a valid file that has no File record, the File it
\* creates is owned by the first active folder, in registration order,
\* whose path is a prefix of the file's path; when no active folder matches
\* the scan goes on to the next file and creates no File and no Embedding
\* for the path.  File rows are created by this step only, and a job stores
\* an Embedding only for a file whose row it holds.
OwnerIsFirstMatching ==
    /\ [][ /\ \A j \in JobIds :
                (scan[j].pc = "list_folders" /\ scan'[j] # scan[j] /\ faults' = faults)
                => /\ files' = files /\ embeddings' = embeddings
                   /\ IF Matching(CurrentPath(scan[j])) = {}
                      THEN scan'[j].pc = "inc_ok" /\ scan'[j].file_id = 0
                      ELSE /\ scan'[j].pc = "create_file"
                           /\ scan'[j].owner \in Matching(CurrentPath(scan[j]))
                           /\ \A k \in Matching(CurrentPath(scan[j])) : scan'[j].owner <= k
           /\ Len(files') > Len(files)
                => /\ Len(files') = Len(files) + 1
                   /\ \E j \in JobIds :
                         /\ scan[j].pc = "create_file"
                         /\ files'[Len(files')].folder_id = scan[j].owner
                         /\ files'[Len(files')].path = CurrentPath(scan[j])
                         /\ scan'[j].file_id = Len(files') ]_vars
    /\ [](\A j \in JobIds :
            /\ scan[j].pc \in {"embed", "get_embs", "upsert"} => scan[j].file_id # 0
            /\ (scan[j].pc = "inc_ok" /\ scan[j].file_id = 0 /\ validate_file(CurrentPath(scan[j])))
               => scan[j].embedding = NoVector)

\* a scan of the folders /a/v and /a, registered in this order, has ended:
\* /a/v/w.wav, under both folders, is owned by /a/v; /a/x.wav, whose only
\* folder /a was deleted during the scan, has no File and no Embedding
OwnerIsFirstMatchingWitness ==
    /\ folders[1].path = DirV /\ folders[1].exists
    /\ folders[2].path = DirA /\ ~folders[2].exists
    /\ FileGetByPath(FileX) = 0
    /\ FileGetByPath(FileV) # 0
    /\ files[FileGetByPath(FileV)].folder_id = 1
    /\ Len(files) = 1
    /\ \E e \in 1 .. Len(embeddings) : embeddings[e].exists
    /\ \A e \in 1 .. Len(embeddings) : embeddings[e].file_id = FileGetByPath(FileV)
    /\ \E j \in JobIds :
          /\ scan[j].pc = "done"
          /\ scan[j].all_files = <<FileV, FileX, FileV>>
          /\ jobs[j].status = "completed"
          /\ jobs[j].failed_files = 0

\* C31: a scan job sets total_files before it processes a file, and sets
\* the last-indexed timestamp of every folder it scanned after the last
\* file and before it marks itself completed: when a job that scanned a
\* folder is completed, each scanned folder that still exists has its
\* timestamp; a job that ends failed leaves the timestamps as they were
\* (stated of a store whose timestamps only this job can set).
TimestampsOnlyWhenCompleted ==
    \A j \in JobIds :
        /\ scan[j].i >= 1 => jobs[j].total_files = Len(scan[j].all_files)
        /\ (jobs[j].status = "completed" /\ scan[j].folders # <<>>)
           => \A k \in 1 .. Len(scan[j].folders) :
                 FolderGet(scan[j].folders[k]) # 0
                 => folders[scan[j].folders[k]].last_indexed_at
        /\ (Len(jobs) = 1 /\ jobs[j].status = "failed")
           => \A f \in 1 .. Len(folders) : ~folders[f].last_indexed_at

\* C32: in every state of a scan job processed_files <= total_files and
\* failed_files <= processed_files; a job that is completed after it has
\* enumerated its files has processed_files = total_files: every enumerated
\* file is counted once, whether it was indexed, skipped or failed.
CountersBounded ==
    \A j \in JobIds :
        /\ jobs[j].processed_files <= jobs[j].total_files
        /\ jobs[j].failed_files <= jobs[j].processed_files
        /\ (jobs[j].status = "completed" /\ scan[j].folders # <<>>)
           => /\ jobs[j].total_files = Len(scan[j].all_files)
              /\ jobs[j].processed_files = jobs[j].total_files

\* a completed job over two files: the empty file was skipped, the other
\* one failed before it had a row, and both are counted
CountersBoundedWitness ==
    \E j \in JobIds :
        /\ jobs[j].status = "completed"
        /\ jobs[j].total_files = 2
        /\ jobs[j].processed_files = 2
        /\ jobs[j].failed_files = 1
        /\ FileE \in DOMAIN disk
        /\ files = <<>>

\* a step of the task of job j that is not an exception
JobStep(j) ==
    \/ MarkRunning(j) \/ GetFolders(j) \/ CompleteEmpty(j) \/ SetTotal(j)
    \/ GetByPath(j) \/ ListFolders(j) \/ CreateFile(j) \/ Embed(j) \/ GetEmbs(j)
    \/ Upsert(j) \/ IncOk(j) \/ IncFail(j) \/ UpdateFolders(j) \/ MarkCompleted(j)
    \/ MarkFailed(j)

\* C33: when every storage and provider call returns or raises and the
\* tasks are scheduled fairly, every job that index_folder creates reaches
\* completed or failed and leaves the registry of active jobs, also when a
\* storage call raises while the job is marked running or failed.  Stated
\* so that a finite run refutes it: a job that has not ended and left the
\* registry has a step to take.
EveryJobEnds ==
    \A j \in JobIds :
        \/ jobs[j].status \in {"completed", "failed"} /\ j \notin active_jobs
        \/ ENABLED JobStep(j)

\* C37: whatever the interleaving of a folder deletion with a running scan,
\* every File row refers to an existing Folder and every Embedding row to
\* an existing File: a scan that listed a folder before it was deleted
\* creates no File and no Embedding for it after the cascade.
NoOrphanRows ==
    /\ \A f \in 1 .. Len(files) :
          files[f].exists => FolderGet(files[f].folder_id) # 0
    /\ \A e \in 1 .. Len(embeddings) :
          embeddings[e].exists => FileGet(embeddings[e].file_id) # 0

\* C39: a File created by a scan is owned by a folder whose directory tree
\* holds the file: the folder's path followed by a separator begins the
\* file's path, so a folder whose path is only a character prefix of a
\* sibling's path (/a and /ab) never owns the sibling's files.
OwnerIsAncestor ==
    \A f \in 1 .. Len(files) :
        (files[f].exists /\ FolderGet(files[f].folder_id) # 0)
            => StartsWith(files[f].path, folders[files[f].folder_id].path \o <<"/">>)

-----------------------------------------------------------------------------
(***************************************************************************)
(* DeletionTracker.  mark_file_deleted is one storage call.                *)
(* notify_if_deleted suspends twice: at FileCRUD.get, where it reads the   *)
(* flags, and at FileCRUD.mark_deletion_notified, where it writes one; the *)
(* calls of several callers interleave at these points.                    *)
(***************************************************************************)

\* the bound on the number of calls of a history
MaxCalls == 5

\* the callers of notify_if_deleted: the search requests in progress
Callers == {"search1", "search2"}

\* the paths given to mark_file_deleted: FileZ has no row
TrackerPaths == {FileX, FileY, FileZ}

\* the ids given to notify_if_deleted: the last one has no row
TrackerFileIds == 1 .. Len(files) + 1

\* FileCRUD.mark_deleted: the row after the call
mark_deleted_mutant(file) == [file EXCEPT !.is_deleted = TRUE]
mark_deleted(file) ==
    [file EXCEPT !.is_deleted = TRUE, !.deletion_notified = FALSE]

\* FileCRUD.mark_deletion_notified: the table after the call
mark_deletion_notified(file_id) ==
    IF FileGet(file_id) = 0 THEN files
    ELSE [files EXCEPT ![file_id].deletion_notified = TRUE]

\* the test of notify_if_deleted on the row it has read
ShouldWarn(file) == file.is_deleted /\ ~file.deletion_notified

\* an entry of trackerLog: file is the id of the row the call was about (0:
\* no row), ret is what the call returned (for notify: a warning or not),
\* wrote tells whether the call changed a File row
Call(op, file, ret, wrote) == [op |-> op, file |-> file, ret |-> ret, wrote |-> wrote]

IdleCall == [pc |-> "idle", file_id |-> 0]

CallsInFlight == {c \in Callers : notifying[c].pc # "idle"}

\* DeletionTracker.mark_file_deleted
mark_file_deleted(path) ==
    /\ Len(trackerLog) + Cardinality(CallsInFlight) < MaxCalls
    /\ LET id == FileGetByPath(path)
       IN  /\ files' = IF id = 0 THEN files ELSE [files EXCEPT ![id] = mark_deleted(@)]
           /\ trackerLog' = Append(trackerLog, Call("mark", id, id # 0, files' # files))
    /\ UNCHANGED <<notifying, disk, folders, embeddings, jobs, NotTracker>>

\* DeletionTracker.notify_if_deleted up to its second suspension point:
\* FileCRUD.get, then the test of the flags
notify_if_deleted(c, file_id) ==
    /\ notifying[c].pc = "idle"
    /\ Len(trackerLog) + Cardinality(CallsInFlight) < MaxCalls
    /\ LET id == FileGet(file_id)
       IN  IF id # 0 /\ ShouldWarn(files[id])
           THEN /\ notifying' = [notifying EXCEPT ![c] =
                                    [pc |-> "mark_deletion_notified", file_id |-> file_id]]
                /\ UNCHANGED trackerLog
           ELSE /\ trackerLog' = Append(trackerLog, Call("notify", id, FALSE, FALSE))
                /\ UNCHANGED notifying
    /\ UNCHANGED <<varsStore, NotTracker>>

\* the rest of notify_if_deleted: FileCRUD.mark_deletion_notified, then the
\* warning is returned
NotifyMarkNotified(c) ==
    /\ notifying[c].pc = "mark_deletion_notified"
    /\ files' = mark_deletion_notified(notifying[c].file_id)
    /\ trackerLog' = Append(trackerLog,
                            Call("notify", notifying[c].file_id, TRUE, files' # files))
    /\ notifying' = [notifying EXCEPT ![c] = IdleCall]
    /\ UNCHANGED <<disk, folders, embeddings, jobs, NotTracker>>

TrackerIdle ==
    /\ notifying = [c \in Callers |-> IdleCall]
    /\ trackerLog = <<>>

\* the rows the histories of the tracker start from: two indexed files
TrackedFiles == <<NewFile(1, FileX, "audio"), NewFile(1, FileY, "video")>>

-----------------------------------------------------------------------------
(***************************************************************************)
(* Properties of the deletion tracker.                                     *)
(***************************************************************************)

\* the successful marks of file f before entry i of the history
MarksBefore(i, f) ==
    {k \in 1 .. i - 1 : trackerLog[k].op = "mark" /\ trackerLog[k].file = f
                        /\ trackerLog[k].ret}

\* the notify calls for file f strictly between entries m and i
NotifiesBetween(m, i, f) ==
    {k \in m + 1 .. i - 1 : trackerLog[k].op = "notify" /\ trackerLog[k].file = f}

LastOf(S) == CHOOSE m \in S : \A k \in S : k <= m

\* C8: in a sequential history of mark and notify calls, a notify for a
\* file returns a warning exactly when it is the first notify after a mark
\* of that file (every further notify before the next mark returns nothing,
\* and the first one after a later mark warns again); a notify for a file
\* that was never marked, or that has no row, returns nothing and changes
\* no flag.
NotifyOncePerDeletion ==
    \A i \in 1 .. Len(trackerLog) :
        trackerLog[i].op = "notify" =>
            LET f == trackerLog[i].file
            IN  IF f = 0 \/ MarksBefore(i, f) = {}
                THEN ~trackerLog[i].ret /\ ~trackerLog[i].wrote
                ELSE trackerLog[i].ret
                         = (NotifiesBetween(LastOf(MarksBefore(i, f)), i, f) = {})

\* a history with two deletion cycles of one file: mark, a notify that
\* warns, a notify that returns nothing, mark, a notify that warns again
NotifyOncePerDeletionWitness ==
    /\ Len(trackerLog) = 5
    /\ \E f \in 1 .. Len(files) :
        /\ \A k \in 1 .. 5 : trackerLog[k].file = f
        /\ trackerLog[1].op = "mark" /\ trackerLog[1].ret
        /\ trackerLog[2].op = "notify" /\ trackerLog[2].ret
        /\ trackerLog[3].op = "notify" /\ ~trackerLog[3].ret
        /\ trackerLog[4].op = "mark" /\ trackerLog[4].ret
        /\ trackerLog[5].op = "notify" /\ trackerLog[5].ret

\* C17: marking a known path deleted leaves its row with is_deleted set and
\* deletion_notified clear and touches no other row; marking it again
\* changes nothing (twice equals once); marking an unknown path returns
\* false and changes no row.
MarkDeletedIdempotent ==
    [][ ( /\ Len(trackerLog') = Len(trackerLog) + 1
          /\ trackerLog'[Len(trackerLog')].op = "mark" )
        => LET call == trackerLog'[Len(trackerLog')]
           IN  IF call.file = 0
               THEN ~call.ret /\ ~call.wrote /\ files' = files
               ELSE /\ call.ret
                    /\ files'[call.file].is_deleted
                    /\ ~files'[call.file].deletion_notified
                    /\ Len(files') = Len(files)
                    /\ \A f \in 1 .. Len(files) : f # call.file => files'[f] = files[f]
                    /\ ( /\ Len(trackerLog) > 0
                         /\ trackerLog[Len(trackerLog)].op = "mark"
                         /\ trackerLog[Len(trackerLog)].file = call.file )
                       => files' = files ]_vars

\* a file was marked, warned about, marked again (the warning flag is
\* reset), marked a second time in a row, and an unknown path was marked
MarkDeletedIdempotentWitness ==
    /\ Len(trackerLog) = 5
    /\ \E f \in 1 .. Len(files) :
        /\ \A k \in 1 .. 4 : trackerLog[k].file = f
        /\ trackerLog[1].op = "mark" /\ trackerLog[1].wrote
        /\ trackerLog[2].op = "notify" /\ trackerLog[2].ret
        /\ trackerLog[3].op = "mark" /\ trackerLog[3].ret /\ trackerLog[3].wrote
        /\ trackerLog[4].op = "mark" /\ trackerLog[4].ret /\ ~trackerLog[4].wrote
        /\ files[f].is_deleted /\ ~files[f].deletion_notified
    /\ trackerLog[5].op = "mark" /\ trackerLog[5].file = 0 /\ ~trackerLog[5].ret

\* C9: between two consecutive marks of a file at most one notify returns a
\* warning, whatever the interleaving of the notify calls: two notify calls
\* that both warn about a file have a mark of that file between their
\* returns.
OneWarningPerDeletion ==
    \A i \in 1 .. Len(trackerLog) : \A j \in i + 1 .. Len(trackerLog) :
        ( /\ trackerLog[i].op = "notify" /\ trackerLog[i].ret
          /\ trackerLog[j].op = "notify" /\ trackerLog[j].ret
          /\ trackerLog[i].file = trackerLog[j].file )
        => \E k \in i + 1 .. j - 1 :
              /\ trackerLog[k].op = "mark"
              /\ trackerLog[k].file = trackerLog[i].file
              /\ trackerLog[k].ret

-----------------------------------------------------------------------------
(***************************************************************************)
(* DeletionTracker.scan_for_deleted_files.  The call suspends at           *)
(* FolderCRUD.get, at FileCRUD.list_by_folder and at the mark_file_deleted *)
(* of every listed file that is missing on disk.                           *)
(***************************************************************************)

\* FileCRUD.list_by_folder: ids in table order
list_by_folder_mutant(folder_id, include_deleted) ==
    Ascending({k \in 1 .. Len(files) : files[k].exists /\ files[k].folder_id = folder_id})
list_by_folder(folder_id, include_deleted) ==
    Ascending({k \in 1 .. Len(files) :
                  /\ files[k].exists
                  /\ files[k].folder_id = folder_id
                  /\ include_deleted \/ ~files[k].is_deleted})

\* Path(file.path).exists()
PathExists(path) == path \in DOMAIN disk

\* before is history: the File rows when the call began
IdleSweep ==
    [pc |-> "idle", folder_id |-> 0, found |-> FALSE, listed |-> <<>>, i |-> 0,
     deleted_count |-> 0, before |-> <<>>]

\* scan_for_deleted_files up to its second storage call: FolderCRUD.get;
\* without the folder it returns 0
scan_for_deleted_files(folder_id) ==
    /\ sweep.pc = "idle"
    /\ sweep' = [IdleSweep EXCEPT
                    !.folder_id = folder_id,
                    !.before = files,
                    !.found = FolderGet(folder_id) # 0,
                    !.pc = IF FolderGet(folder_id) = 0 THEN "done" ELSE "list"]
    /\ UNCHANGED <<varsHandler, varsStore, varsScan, varsWorker, varsTracker, varsSearch,
                   varsLoader, varsWatcher>>

\* the position in the listed files of the next one that is missing on disk, or 0
NextMissing(fr) ==
    LET gone == {k \in fr.i .. Len(fr.listed) : ~PathExists(files[fr.listed[k]].path)}
    IN  IF gone = {} THEN 0 ELSE CHOOSE k \in gone : \A m \in gone : k <= m

\* scan_for_deleted_files resumed at a suspension point: the list of the
\* folder's files, or the loop up to the mark of the next missing file, or
\* to its end
SweepResume ==
    /\ sweep.pc \in {"list", "check"}
    /\ CASE sweep.pc = "list" ->
              /\ sweep' = [sweep EXCEPT !.listed = list_by_folder(sweep.folder_id, FALSE),
                                        !.i = 1, !.pc = "check"]
              /\ UNCHANGED <<files, trackerLog>>
         [] sweep.pc = "check" ->
              LET k == NextMissing(sweep)
              IN  IF k = 0
                  THEN /\ sweep' = [sweep EXCEPT !.pc = "done"]
                       /\ UNCHANGED <<files, trackerLog>>
                  ELSE LET id == FileGetByPath(files[sweep.listed[k]].path)
                       IN  /\ files' = IF id = 0 THEN files
                                       ELSE [files EXCEPT ![id] = mark_deleted(@)]
                           /\ trackerLog' = Append(trackerLog,
                                                   Call("mark", id, id # 0, files' # files))
                           /\ sweep' = [sweep EXCEPT !.i = k + 1,
                                                     !.deleted_count = @ + 1]
    /\ UNCHANGED <<notifying, disk, folders, embeddings, jobs, varsHandler, varsScan,
                   varsWorker, varsSearch, varsLoader, varsWatcher>>

SweepIdle == sweep = IdleSweep

\* the stores a call starts from: two files of folder 1 and one of folder
\* 2, each live, soft-deleted, or soft-deleted and warned about; any of
\* them missing on disk
SweptPaths == <<FileX, FileY, FileW>>
SweptFiles(flags) ==
    [k \in 1 .. Len(SweptPaths) |->
        [NewFile(IF StartsWith(SweptPaths[k], DirB) THEN 2 ELSE 1,
                 SweptPaths[k], detect(SweptPaths[k]))
            EXCEPT !.is_deleted = flags[k] # "live",
                   !.deletion_notified = flags[k] = "notified"]]

\* the files the call has to mark: those of the folder that were not
\* soft-deleted when the call began and are missing on disk
MissingOf(folder_id, rows) ==
    {k \in 1 .. Len(rows) :
        /\ rows[k].exists
        /\ rows[k].folder_id = folder_id
        /\ ~rows[k].is_deleted
        /\ ~PathExists(rows[k].path)}

\* C22: scan_for_deleted_files(folder) soft-deletes exactly the files of
\* the folder that were not soft-deleted and are missing on disk, and
\* returns their number; every other File row is as it was (a file on disk,
\* a file of another folder, a file already soft-deleted with its
\* deletion_notified flag); for an unknown folder it returns 0 and changes
\* nothing.
SweepMarksExactlyMissing ==
    sweep.pc = "done" =>
        IF ~sweep.found
        THEN sweep.deleted_count = 0 /\ files = sweep.before
        ELSE LET missing == MissingOf(sweep.folder_id, sweep.before)
             IN  /\ sweep.deleted_count = Cardinality(missing)
                 /\ Len(files) = Len(sweep.before)
                 /\ \A k \in 1 .. Len(files) :
                       IF k \in missing
                       THEN /\ files[k].is_deleted
                            /\ ~files[k].deletion_notified
                            /\ files[k] = [sweep.before[k] EXCEPT !.is_deleted = TRUE]
                       ELSE files[k] = sweep.before[k]

\* a call for folder 1 has marked one file; a file of the folder that was
\* already soft-deleted and warned about, and a file of the other folder,
\* both missing on disk, are as they were
SweepMarksExactlyMissingWitness ==
    /\ sweep.pc = "done"
    /\ sweep.folder_id = 1
    /\ sweep.deleted_count = 1
    /\ disk = <<>>
    /\ files[1].is_deleted /\ ~sweep.before[1].is_deleted
    /\ files[2].is_deleted /\ files[2].deletion_notified
    /\ ~files[3].is_deleted

-----------------------------------------------------------------------------
(***************************************************************************)
(* IndexingWorker.  _process_loop takes the events from the queue one at a *)
(* time and makes each a task that runs _process_event; the tasks          *)
(* interleave at their suspension points.  Tasks in the same position with *)
(* the same event behave alike, so the live tasks are kept as a bag of     *)
(* frames; a task that has waited for the semaphore is resumed in any      *)
(* order (asyncio resumes the waiters first come, first served: one of     *)
(* these orders).                                                          *)
(***************************************************************************)

\* the default of max_concurrent_jobs
DefaultConcurrentJobs == 5

\* the bound on the max_concurrent_jobs a worker is constructed with
MaxConcurrent == 2

\* the bound on the number of events put on the queue
MaxEvents == 3

\* the events the handler puts on the queue: FileX has a row, FileZ is on
\* disk without a row, FileE is an empty file
WorkerEvents ==
    { Event("create", FileX), Event("delete", FileX),
      Event("modify", FileZ), Event("create", FileE) }

\* asyncio.Semaphore.acquire returns without waiting when the value is positive
CanAcquireMutant(value) == TRUE
CanAcquire(value) == value > 0

\* the frame of a task that _process_loop has just created
NewTask(event) ==
    [pc |-> "acquire", action |-> event.action, path |-> event.path,
     file_id |-> 0, embedding |-> NoVector]

\* the tasks inside "async with self.semaphore"
SectionTasks == {fr \in BagToSet(tasks) : fr.pc # "acquire"}
InSection == BagCardinality([fr \in SectionTasks |-> tasks[fr]])
Waiting == {fr \in BagToSet(tasks) : fr.pc = "acquire"}

\* a task moves from frame fr to frame to
Move(fr, to) == tasks' = (tasks (-) SetToBag({fr})) (+) SetToBag({to})

\* the task with frame fr leaves the section and ends: the semaphore is released
LeaveMutant(fr) ==
    /\ tasks' = tasks (-) SetToBag({fr})
    /\ UNCHANGED semaphore
Leave(fr) ==
    /\ tasks' = tasks (-) SetToBag({fr})
    /\ semaphore' = semaphore + 1

\* MultimodalEventHandler._queue_event, seen from the worker
QueueEvent(event) ==
    /\ events_queued < MaxEvents
    /\ queue' = Append(queue, event)
    /\ events_queued' = events_queued + 1
    /\ UNCHANGED <<max_concurrent_jobs, semaphore, worker_running, tasks,
                   varsStore, NotWorker>>

\* IndexingWorker.start
start ==
    /\ ~worker_running
    /\ worker_running' = TRUE
    /\ UNCHANGED <<max_concurrent_jobs, semaphore, tasks, events_queued, queue,
                   varsStore, NotWorker>>

\* IndexingWorker.stop: the loop is cancelled, the tasks it made go on
stop ==
    /\ worker_running
    /\ worker_running' = FALSE
    /\ UNCHANGED <<max_concurrent_jobs, semaphore, tasks, events_queued, queue,
                   varsStore, NotWorker>>

\* the loop task lives from start to the cancel of stop
LoopAliveMutant == TRUE
LoopAlive == worker_running

\* asyncio.create_task returns at once: the loop does not wait for the
\* task it has made
LoopWaitsMutant == tasks # EmptyBag
LoopWaits == FALSE

\* IndexingWorker._process_loop: one turn of the loop
process_loop ==
    /\ LoopAlive
    /\ ~LoopWaits
    /\ queue # <<>>
    /\ queue' = Tail(queue)
    /\ tasks' = tasks (+) SetToBag({NewTask(Head(queue))})
    /\ UNCHANGED <<max_concurrent_jobs, semaphore, worker_running, events_queued,
                   varsStore, NotWorker>>

\* _process_event enters the section and runs to its first suspension
\* point: _index_file returns at once for a file that is not valid
Acquire(fr) ==
    /\ fr.pc = "acquire"
    /\ CanAcquire(semaphore)
    /\ IF fr.action \in {"create", "modify"}
       THEN IF validate_file(fr.path)
            THEN /\ Move(fr, [fr EXCEPT !.pc = "get_by_path"])
                 /\ semaphore' = semaphore - 1
            ELSE /\ tasks' = tasks (-) SetToBag({fr})
                 /\ UNCHANGED semaphore
       ELSE IF fr.action = "delete"
            THEN /\ Move(fr, [fr EXCEPT !.pc = "mark_deleted"])
                 /\ semaphore' = semaphore - 1
            ELSE /\ tasks' = tasks (-) SetToBag({fr})
                 /\ UNCHANGED semaphore
    /\ UNCHANGED <<max_concurrent_jobs, worker_running, events_queued, queue,
                   varsStore, NotWorker>>

\* _index_file: FileCRUD.get_by_path; a file without a row is skipped
WorkerGetByPath(fr) ==
    /\ fr.pc = "get_by_path"
    /\ LET id == FileGetByPath(fr.path)
       IN  IF id = 0
           THEN Leave(fr)
           ELSE /\ Move(fr, [fr EXCEPT !.pc = "embed", !.file_id = id])
                /\ UNCHANGED semaphore
    /\ UNCHANGED <<max_concurrent_jobs, worker_running, events_queued, queue,
                   varsStore, NotWorker>>

\* _index_file: generate_embedding_for_file; None ends the task
WorkerEmbed(fr) ==
    /\ fr.pc = "embed"
    /\ \E v \in ProviderVectors \cup {NoVector} :
        IF v = NoVector
        THEN Leave(fr)
        ELSE /\ Move(fr, [fr EXCEPT !.pc = "get_by_file", !.embedding = v])
             /\ UNCHANGED semaphore
    /\ UNCHANGED <<max_concurrent_jobs, worker_running, events_queued, queue,
                   varsStore, NotWorker>>

\* _index_file: EmbeddingCRUD.get_by_file.  With rows to update the task
\* evaluates embedding.SerializeToString(), which an ndarray does not have:
\* the AttributeError is caught by _process_event and nothing is written
WorkerGetByFile(fr) ==
    /\ fr.pc = "get_by_file"
    /\ IF EmbeddingGetByFile(fr.file_id) # <<>>
       THEN Leave(fr)
       ELSE /\ Move(fr, [fr EXCEPT !.pc = "create"])
            /\ UNCHANGED semaphore
    /\ UNCHANGED <<max_concurrent_jobs, worker_running, events_queued, queue,
                   varsStore, NotWorker>>

\* _index_file: EmbeddingCRUD.create
WorkerCreateEmbedding(fr) ==
    /\ fr.pc = "create"
    /\ embeddings' = Append(embeddings,
                            NewEmbedding(fr.file_id, fr.embedding,
                                         detect(fr.path), EmbeddingType(detect(fr.path))))
    /\ Leave(fr)
    /\ UNCHANGED <<max_concurrent_jobs, worker_running, events_queued, queue,
                   disk, folders, files, jobs, NotWorker>>

\* _mark_file_deleted: FileCRUD.mark_deleted
WorkerMarkDeleted(fr) ==
    /\ fr.pc = "mark_deleted"
    /\ LET id == FileGetByPath(fr.path)
       IN  files' = IF id = 0 THEN files ELSE [files EXCEPT ![id] = mark_deleted(@)]
    /\ Leave(fr)
    /\ UNCHANGED <<max_concurrent_jobs, worker_running, events_queued, queue,
                   disk, folders, embeddings, jobs, NotWorker>>

\* a storage call or the provider raises: _process_event logs the error
WorkerRaise(fr) ==
    /\ fr.pc \notin {"acquire"}
    /\ Leave(fr)
    /\ UNCHANGED <<max_concurrent_jobs, worker_running, events_queued, queue,
                   varsStore, NotWorker>>

\* a step of some _process_event task
WorkerTaskStep ==
    \/ \E fr \in BagToSet(tasks) : Acquire(fr)
    \/ \E fr \in BagToSet(tasks) : WorkerGetByPath(fr)
    \/ \E fr \in BagToSet(tasks) : WorkerEmbed(fr)
    \/ \E fr \in BagToSet(tasks) : WorkerGetByFile(fr)
    \/ \E fr \in BagToSet(tasks) : WorkerCreateEmbedding(fr)
    \/ \E fr \in BagToSet(tasks) : WorkerMarkDeleted(fr)
    \/ \E fr \in BagToSet(tasks) : WorkerRaise(fr)

\* a worker constructed with the default, not started
WorkerIdle ==
    /\ max_concurrent_jobs = DefaultConcurrentJobs
    /\ semaphore = DefaultConcurrentJobs
    /\ worker_running = FALSE
    /\ tasks = EmptyBag
    /\ events_queued = 0

-----------------------------------------------------------------------------
(***************************************************************************)
(* Properties of the worker.                                               *)
(***************************************************************************)

\* C6: at every moment at most max_concurrent_jobs event tasks are inside
\* the processing section, whatever the number of queued events and the
\* order in which tasks start and end; the semaphore counts the free places.
AtMostNInSection ==
    /\ InSection <= max_concurrent_jobs
    /\ semaphore = max_concurrent_jobs - InSection

\* the section is full, with more than one task inside, while another task
\* waits for the semaphore
AtMostNInSectionWitness ==
    /\ max_concurrent_jobs > 1
    /\ InSection = max_concurrent_jobs
    /\ Waiting # {}

\* C26: the dequeue loop never waits for a task it has dispatched: while
\* the worker runs and the queue is not empty the loop can take the next
\* event, also when max_concurrent_jobs tasks hold the semaphore; the task
\* it makes for the event is the one that waits for the semaphore.
LoopNeverWaitsForTask ==
    /\ []((worker_running /\ queue # <<>>) => ENABLED process_loop)
    /\ [][ (queue # <<>> /\ queue' = Tail(queue))
             => /\ tasks' = tasks (+) SetToBag({NewTask(Head(queue))})
                /\ NewTask(Head(queue)).pc = "acquire"
                /\ semaphore' = semaphore ]_vars
    /\ [](semaphore = 0 => \A fr \in Waiting : ~ENABLED Acquire(fr))

\* the section is full, a task waits for the semaphore and the running
\* loop has a further event to take
LoopNeverWaitsForTaskWitness ==
    /\ worker_running
    /\ queue # <<>>
    /\ semaphore = 0
    /\ InSection = max_concurrent_jobs
    /\ Waiting # {}

\* q begins with all of p
IsPrefix(p, q) == Len(p) <= Len(q) /\ SubSeq(q, 1, Len(p)) = p

\* C27: stop cancels the dequeue loop and nothing else: it leaves the
\* queue and the dispatched tasks as they are; while the worker is stopped
\* no event leaves the queue and no task is made, until start is called
\* again; a task dispatched before stop can still take its steps, the write
\* of an Embedding among them.
StopCancelsOnlyLoop ==
    /\ [][ /\ (worker_running /\ ~worker_running')
                => tasks' = tasks /\ queue' = queue /\ semaphore' = semaphore
           /\ (~worker_running /\ ~worker_running')
                => /\ IsPrefix(queue, queue')
                   /\ \A fr \in BagToSet(tasks') : CopiesIn(fr, tasks') > CopiesIn(fr, tasks)
                                                     => fr.pc # "acquire" ]_vars
    /\ [](~worker_running =>
            \A fr \in BagToSet(tasks) :
                /\ fr.pc = "create" => ENABLED WorkerCreateEmbedding(fr)
                /\ fr.pc = "mark_deleted" => ENABLED WorkerMarkDeleted(fr))

\* the worker has been stopped with an event left in the queue while a
\* task it had dispatched is about to write its Embedding
StopCancelsOnlyLoopWitness ==
    /\ ~worker_running
    /\ queue # <<>>
    /\ \E fr \in BagToSet(tasks) : fr.pc = "create" /\ FileGet(fr.file_id) # 0

\* C35: every dispatched event task gives its permit back when it ends,
\* whether it indexed, skipped or raised: when no task is in the processing
\* section all max_concurrent_jobs permits are free; the end of a task, an
\* exception included, takes nothing but that task away: the loop goes on
\* running, the queue and the other tasks are as they were.
PermitReleasedAtEnd ==
    /\ [](InSection = 0 => semaphore = max_concurrent_jobs)
    /\ [][ \A fr \in SectionTasks :
             ( /\ CopiesIn(fr, tasks') < CopiesIn(fr, tasks)
               /\ BagCardinality(tasks') < BagCardinality(tasks) )
             => /\ semaphore' = semaphore + 1
                /\ tasks' = tasks (-) SetToBag({fr})
                /\ worker_running' = worker_running
                /\ queue' = queue ]_vars

\* a worker with one permit has dispatched every event; a task has written
\* an Embedding, all tasks have ended and the permit is free
PermitReleasedAtEndWitness ==
    /\ worker_running
    /\ max_concurrent_jobs = 1
    /\ events_queued = MaxEvents
    /\ queue = <<>>
    /\ tasks = EmptyBag
    /\ semaphore = 1
    /\ embeddings # <<>>

\* the task with frame fr takes a step
Steps(fr) == CopiesIn(fr, tasks') < CopiesIn(fr, tasks)

\* C23: the event-driven indexing of a create or modify event on a valid
\* supported file under a registered active folder that has no File record
\* creates the File record (and goes on to store the Embedding), as the
\* scan does.
EventIndexingCreatesFile ==
    [][ \A fr \in BagToSet(tasks) :
          ( /\ fr.pc = "get_by_path"
            /\ fr.action \in {"create", "modify"}
            /\ validate_file(fr.path)
            /\ OwningFolder(fr.path) # 0
            /\ FileGetByPath(fr.path) = 0
            /\ Steps(fr) )
          => FileGetByPath(fr.path)' # 0 ]_vars

\* C24: a create or modify event for a valid file that already has an
\* Embedding, for which the provider returns a vector, overwrites the
\* stored vector and sets the indexed timestamp without adding a row.
EventOverwritesEmbedding ==
    [][ \A fr \in BagToSet(tasks) :
          ( /\ fr.pc = "get_by_file"
            /\ fr.action \in {"create", "modify"}
            /\ fr.embedding # NoVector
            /\ EmbeddingGetByFile(fr.file_id) # <<>>
            /\ Steps(fr) )
          => /\ Len(embeddings') = Len(embeddings)
             /\ \A e \in SeqToSet(EmbeddingGetByFile(fr.file_id)) :
                   deserialize_array(embeddings'[e].vector) = fr.embedding
             /\ files'[fr.file_id].indexed_at ]_vars

-----------------------------------------------------------------------------
(***************************************************************************)
(* SearchService.search.  The request suspends at compute_query_embedding, *)
(* at the scan of each modality (EmbeddingCRUD.search_similar) and at the  *)
(* two storage calls of every notify_if_deleted it makes.  A similarity    *)
(* and a threshold are whole numbers of the same unit.                     *)
(***************************************************************************)

\* the bound on the top_k of a request (the schema asks for top_k >= 1)
MaxTopK == 2

\* the thresholds of the requests
Thresholds == {0, 2}

\* request.modalities or the default
DefaultModalities == <<"audio", "video", "audio_video">>

SearchRequests ==
    [query_type : {"text", "audio", "video"},
     modalities : {None, <<"audio">>},
     folder_ids : {None, <<1>>},
     top_k : 1 .. MaxTopK,
     threshold : Thresholds]

\* np.dot of two vectors of one length
RECURSIVE DotFrom(_, _, _)
DotFrom(a, b, k) ==
    IF k > Len(a) THEN 0 ELSE a[k] * b[k] + DotFrom(a, b, k + 1)
Dot(a, b) == DotFrom(a, b, 1)

\* the test that keeps a row in search_similar
AboveThreshold(similarity, threshold) == similarity >= threshold

\* list.sort(key=similarity, reverse=True): a stable sort, greatest first
InsertDescending(sorted, item) ==
    LET n == Cardinality({k \in 1 .. Len(sorted) :
                             sorted[k].similarity >= item.similarity})
    IN  SubSeq(sorted, 1, n) \o <<item>> \o SubSeq(sorted, n + 1, Len(sorted))
RECURSIVE SortDescending(_)
SortDescendingMutant(items) == items
SortDescending(items) ==
    IF items = <<>> THEN <<>>
    ELSE InsertDescending(SortDescending(SubSeq(items, 1, Len(items) - 1)),
                          items[Len(items)])

\* seq[:k]
Take(seq, k) == SubSeq(seq, 1, IF k < Len(seq) THEN k ELSE Len(seq))

\* the rows the query of search_similar yields: the embeddings with a
\* vector, joined with their files, in table order
JoinedRowsMutant(modality, folder_ids, exclude_deleted) ==
    Ascending({e \in 1 .. Len(embeddings) :
        /\ embeddings[e].exists
        /\ FileGet(embeddings[e].file_id) # 0
        /\ modality # None => embeddings[e].modality = modality
        /\ (folder_ids # None /\ folder_ids # <<>>)
              => files[embeddings[e].file_id].folder_id \in SeqToSet(folder_ids)})
JoinedRows(modality, folder_ids, exclude_deleted) ==
    Ascending({e \in 1 .. Len(embeddings) :
        /\ embeddings[e].exists
        /\ embeddings[e].vector # None
        /\ FileGet(embeddings[e].file_id) # 0
        /\ modality # None => embeddings[e].modality = modality
        /\ (folder_ids # None /\ folder_ids # <<>>)
              => files[embeddings[e].file_id].folder_id \in SeqToSet(folder_ids)
        /\ exclude_deleted => ~files[embeddings[e].file_id].is_deleted})

\* a (file, similarity) pair: the File object holds the row as it was read
Scored(e, query_vector) ==
    [file_id |-> embeddings[e].file_id,
     is_deleted |-> files[embeddings[e].file_id].is_deleted,
     embedding_id |-> e,
     similarity |-> Dot(query_vector, deserialize_array(embeddings[e].vector))]

RECURSIVE SimilarFiles(_, _, _)
SimilarFiles(rows, query_vector, threshold) ==
    IF rows = <<>> THEN <<>>
    ELSE LET item == Scored(Head(rows), query_vector)
         IN  (IF AboveThreshold(item.similarity, threshold) THEN <<item>> ELSE <<>>)
                 \o SimilarFiles(Tail(rows), query_vector, threshold)

\* EmbeddingCRUD.search_similar
search_similar_mutant(query_vector, modality, folder_ids, top_k, threshold, exclude_deleted) ==
    SortDescending(Take(SimilarFiles(JoinedRows(modality, folder_ids, exclude_deleted),
                                     query_vector, threshold),
                        top_k))
search_similar(query_vector, modality, folder_ids, top_k, threshold, exclude_deleted) ==
    Take(SortDescending(SimilarFiles(JoinedRows(modality, folder_ids, exclude_deleted),
                                     query_vector, threshold)),
         top_k)

\* what the provider can give for a query: for a text query a vector or
\* None for each target modality, for an audio or video query one vector or
\* None for the query itself
ProviderGives(query_type, targets) ==
    IF query_type = "text"
    THEN [SeqToSet(targets) -> ProviderVectors \cup {NoVector}]
    ELSE {[m \in SeqToSet(targets) |-> v] : v \in ProviderVectors \cup {NoVector}}

\* SimilarityCalculator.compute_query_embedding: the pairs of the dict it
\* returns, in insertion order; given maps a target modality to what the
\* provider gives for it
RECURSIVE QueryEmbeddingsMutant(_, _, _)
QueryEmbeddingsMutant(query_type, targets, given) ==
    IF targets = <<>> THEN <<>>
    ELSE (IF given[Head(targets)] # NoVector
          THEN <<[modality |-> Head(targets), vector |-> given[Head(targets)]]>>
          ELSE <<>>)
             \o QueryEmbeddingsMutant(query_type, Tail(targets), given)
RECURSIVE QueryEmbeddings(_, _, _)
QueryEmbeddings(query_type, targets, given) ==
    IF targets = <<>> THEN <<>>
    ELSE LET modality == Head(targets)
             emb == CASE query_type = "text" -> given[modality]
                      [] query_type = "audio" ->
                            IF modality \in {"audio", "audio_video"}
                            THEN given[modality] ELSE NoVector
                      [] query_type = "video" ->
                            IF modality \in {"video", "audio_video"}
                            THEN given[modality] ELSE NoVector
                      [] OTHER -> NoVector
         IN  (IF emb # NoVector THEN <<[modality |-> modality, vector |-> emb]>> ELSE <<>>)
                 \o QueryEmbeddings(query_type, Tail(targets), given)

\* the results of one scan, each with the modality of the scan
RECURSIVE WithModality(_, _)
WithModality(items, modality) ==
    IF items = <<>> THEN <<>>
    ELSE <<[file_id |-> Head(items).file_id, is_deleted |-> Head(items).is_deleted,
            embedding_id |-> Head(items).embedding_id,
            similarity |-> Head(items).similarity, modality |-> modality]>>
             \o WithModality(Tail(items), modality)

\* the first result from position i on whose File object is flagged deleted, or 0
NextDeleted(results, i) ==
    IF \E k \in i .. Len(results) : results[k].is_deleted
    THEN CHOOSE k \in i .. Len(results) :
             /\ results[k].is_deleted
             /\ \A m \in i .. k - 1 : ~results[m].is_deleted
    ELSE 0

\* given, scans, flagged and pool are history: what the provider gave for
\* the query, the number of calls of search_similar, the files that were
\* flagged deleted when the request arrived, and every row a scan found to
\* score at least the threshold, before the scan's cut
IdleSearch ==
    [pc |-> "idle", request |-> None, query_embeddings |-> <<>>, all_results |-> <<>>,
     results |-> <<>>, warnings |-> <<>>, i |-> 0, given |-> <<>>, scans |-> 0,
     flagged |-> {}, pool |-> <<>>]

IdleSimilar ==
    [pc |-> "idle", file_id |-> 0, top_k |-> 0, threshold |-> 0, modality |-> None,
     query_vector |-> NoVector, results |-> <<>>, scans |-> 0]

\* the response loop of search from result i on, up to its next suspension point
Respond(fr, i) ==
    LET d == NextDeleted(fr.results, i)
    IN  IF d = 0 THEN [fr EXCEPT !.pc = "done", !.i = 0]
        ELSE [fr EXCEPT !.pc = "notify_get", !.i = d]

\* search up to its first scan: compute_query_embedding; without a query
\* embedding the response is empty.  A behaviour holds one request.
SearchBegin(request) ==
    /\ search.pc = "idle"
    /\ similar.pc = "idle"
    /\ LET targets == IF request.modalities # None /\ request.modalities # <<>>
                      THEN request.modalities ELSE DefaultModalities
       IN  \E given \in ProviderGives(request.query_type, targets) :
               LET q == QueryEmbeddings(request.query_type, targets, given)
               IN  search' = [IdleSearch EXCEPT
                                 !.request = request,
                                 !.given = given,
                                 !.flagged = {f \in 1 .. Len(files) : files[f].is_deleted},
                                 !.query_embeddings = q,
                                 !.pc = IF q = <<>> THEN "done" ELSE "scan",
                                 !.i = IF q = <<>> THEN 0 ELSE 1]
    /\ UNCHANGED <<similar, varsStore, NotSearch>>

\* search resumed at a suspension point: the scan of the next modality, and
\* after the last one the sort, the cut and the response loop; or a storage
\* call of notify_if_deleted for the result in hand
SearchResume ==
    /\ search.pc \in {"scan", "notify_get", "notify_mark"}
    /\ LET req == search.request
           q == search.query_embeddings
       IN  CASE search.pc = "scan" ->
                  LET found == search_similar(q[search.i].vector, q[search.i].modality,
                                              req.folder_ids, req.top_k, req.threshold, TRUE)
                      all == search.all_results \o WithModality(found, q[search.i].modality)
                      seen == search.pool
                                 \o WithModality(SimilarFiles(JoinedRows(q[search.i].modality,
                                                                         req.folder_ids, TRUE),
                                                              q[search.i].vector,
                                                              req.threshold),
                                                 q[search.i].modality)
                  IN  /\ search' =
                            IF search.i < Len(q)
                            THEN [search EXCEPT !.all_results = all, !.i = @ + 1,
                                                !.scans = @ + 1, !.pool = seen]
                            ELSE Respond([search EXCEPT
                                             !.all_results = all,
                                             !.scans = @ + 1,
                                             !.pool = seen,
                                             !.results = Take(SortDescending(all), req.top_k)],
                                         1)
                      /\ UNCHANGED files
             [] search.pc = "notify_get" ->
                  LET id == FileGet(search.results[search.i].file_id)
                  IN  /\ search' =
                            IF id # 0 /\ ShouldWarn(files[id])
                            THEN [search EXCEPT !.pc = "notify_mark"]
                            ELSE Respond(search, search.i + 1)
                      /\ UNCHANGED files
             [] search.pc = "notify_mark" ->
                  /\ files' = mark_deletion_notified(search.results[search.i].file_id)
                  /\ search' = Respond([search EXCEPT
                                           !.warnings = Append(@, search.results[search.i].file_id)],
                                       search.i + 1)
    /\ UNCHANGED <<similar, disk, folders, embeddings, jobs, NotSearch>>

\* the results of the scan without those of the reference file
RECURSIVE Others(_, _)
OthersMutant(items, file_id) == items
Others(items, file_id) ==
    IF items = <<>> THEN <<>>
    ELSE (IF Head(items).file_id # file_id THEN <<Head(items)>> ELSE <<>>)
             \o Others(Tail(items), file_id)

\* find_similar_files up to its second storage call: FileCRUD.get; without
\* the file the response is empty.  A behaviour holds one request.
find_similar_files(file_id, top_k, threshold) ==
    /\ similar.pc = "idle"
    /\ search.pc = "idle"
    /\ LET id == FileGet(file_id)
       IN  similar' = [IdleSimilar EXCEPT
                          !.file_id = file_id,
                          !.top_k = top_k,
                          !.threshold = threshold,
                          !.modality = IF id = 0 THEN None ELSE files[id].modality,
                          !.pc = IF id = 0 THEN "done" ELSE "get_by_file"]
    /\ UNCHANGED <<search, varsStore, NotSearch>>

\* find_similar_files resumed at a suspension point: EmbeddingCRUD.get_by_file
\* (without an embedding the response is empty; the first one is the query
\* vector), or the scan with top_k + 1, the removal of the reference file
\* and the cut
FindSimilarResume ==
    /\ similar.pc \in {"get_by_file", "scan"}
    /\ CASE similar.pc = "get_by_file" ->
              LET embs == EmbeddingGetByFile(similar.file_id)
              IN  similar' =
                      IF embs = <<>>
                      THEN [similar EXCEPT !.pc = "done"]
                      ELSE [similar EXCEPT
                               !.pc = "scan",
                               !.query_vector = deserialize_array(embeddings[embs[1]].vector)]
         [] similar.pc = "scan" ->
              LET found == search_similar(similar.query_vector, similar.modality, None,
                                          similar.top_k + 1, similar.threshold, TRUE)
              IN  similar' = [similar EXCEPT
                                 !.pc = "done",
                                 !.scans = @ + 1,
                                 !.results = Take(Others(found, similar.file_id),
                                                  similar.top_k)]
    /\ UNCHANGED <<search, varsStore, NotSearch>>

SearchIdle ==
    /\ search = IdleSearch
    /\ similar = IdleSimilar

\* the stores a search runs over: four indexed files (three audio, one
\* video), the last one owned by a second folder, any of them flagged
\* deleted; a file with a vector has one embedding
IndexedPaths == <<FileX, FileY, FileZ, FileW>>

IndexedFiles(deleted) ==
    [k \in 1 .. Len(IndexedPaths) |->
        [NewFile(IF StartsWith(IndexedPaths[k], DirB) THEN 2 ELSE 1,
                 IndexedPaths[k], detect(IndexedPaths[k]))
            EXCEPT !.is_deleted = deleted[k], !.indexed_at = TRUE]]

RECURSIVE IndexedEmbeddingsFrom(_, _)
IndexedEmbeddingsFrom(vectors, k) ==
    IF k > Len(IndexedPaths) THEN <<>>
    ELSE (IF vectors[k] = NoVector THEN <<>>
          ELSE <<NewEmbedding(k, vectors[k], detect(IndexedPaths[k]),
                              EmbeddingType(detect(IndexedPaths[k])))>>)
             \o IndexedEmbeddingsFrom(vectors, k + 1)
IndexedEmbeddings(vectors) == IndexedEmbeddingsFrom(vectors, 1)

\* the vectors of the indexed files: the video file may have no embedding
IndexedVectors ==
    {v \in [1 .. Len(IndexedPaths) -> ProviderVectors \cup {NoVector}] :
        \A k \in 1 .. Len(IndexedPaths) :
            v[k] = NoVector => detect(IndexedPaths[k]) = "video"}

\* the files that a deletion event marks while a request is in progress
MarkedPaths == {FileX, FileW}

-----------------------------------------------------------------------------
(***************************************************************************)
(* Properties of the search.                                               *)
(***************************************************************************)

\* the query vector that a result was scored with
QueryVectorOf(modality) ==
    LET q == search.query_embeddings
    IN  q[CHOOSE k \in 1 .. Len(q) : q[k].modality = modality].vector

\* every result scores at least the threshold, with the dot product of the
\* query vector and its stored vector, and there are at most top_k results
ScoredAndCut ==
    LET r == search.results
    IN  /\ Len(r) <= search.request.top_k
        /\ \A k \in 1 .. Len(r) :
              /\ r[k].similarity >= search.request.threshold
              /\ r[k].similarity =
                    Dot(QueryVectorOf(r[k].modality),
                        deserialize_array(embeddings[r[k].embedding_id].vector))

\* C10 as stated: for any stored vectors, threshold and top-k, search
\* returns only items whose dot-product score is at least the threshold,
\* sorted strictly descending by score, and at most top-k items.
RankedStrictlyDescending ==
    search.pc = "done" =>
        /\ ScoredAndCut
        /\ \A k \in 1 .. Len(search.results) - 1 :
              search.results[k].similarity > search.results[k + 1].similarity

\* C10 amended: for any stored vectors, threshold and top-k, search returns
\* only items whose dot-product score is at least the threshold, sorted
\* descending by score with equal scores allowed next to each other (no
\* result scores more than the one before it), and at most top-k items.
RankedDescending ==
    search.pc = "done" =>
        /\ ScoredAndCut
        /\ \A k \in 1 .. Len(search.results) - 1 :
              search.results[k].similarity >= search.results[k + 1].similarity

\* C11: every result of search and of find-similar is a file whose deleted
\* flag was false when the scan that found it ran (the flag its File object
\* holds), and with a folder filter a file owned by one of the listed folders.
ResultsNotDeletedAtScan ==
    /\ \A k \in 1 .. Len(search.results) :
          /\ ~search.results[k].is_deleted
          /\ search.results[k].file_id \notin search.flagged
          /\ (search.request.folder_ids # None /\ search.request.folder_ids # <<>>)
                => files[search.results[k].file_id].folder_id
                       \in SeqToSet(search.request.folder_ids)
    /\ \A k \in 1 .. Len(similar.results) : ~similar.results[k].is_deleted

\* an answered search with a folder filter, one of whose results is a file
\* that was flagged after its scan, while a file that was flagged before the
\* request and the file of the other folder are left out
ResultsNotDeletedAtScanWitness ==
    /\ search.pc = "done"
    /\ search.request.folder_ids # None
    /\ search.flagged # {}
    /\ \E k \in 1 .. Len(search.results) : files[search.results[k].file_id].is_deleted

\* C36: search never returns a warning and never sets a deletion_notified
\* flag: its scans leave out the flagged files and the response loop tests
\* the flag of the rows the scans returned, so it never calls
\* notify_if_deleted, and no step of search changes a File row.
SearchNeverWarns ==
    /\ [](/\ search.warnings = <<>>
          /\ search.pc \notin {"notify_get", "notify_mark"})
    /\ [][ search' # search => files' = files ]_vars
    /\ [][ \A f \in 1 .. Len(files) :
              files'[f].deletion_notified = files[f].deletion_notified ]_vars

\* an answered search of two scans, one of whose results is a file that was
\* flagged deleted after its scan: the response has no warning and the file
\* is not marked as notified
SearchNeverWarnsWitness ==
    /\ search.pc = "done"
    /\ search.scans >= 2
    /\ search.warnings = <<>>
    /\ \E k \in 1 .. Len(search.results) :
          /\ files[search.results[k].file_id].is_deleted
          /\ ~files[search.results[k].file_id].deletion_notified

\* C40: every File and every Embedding that indexing stores has modality
\* audio or video, never audio_video, whatever the modality filter of the
\* owning folder; hence the audio_video leg of a search has no candidate
\* row and contributes no result.
StoredModalityAudioOrVideo ==
    /\ \A f \in 1 .. Len(files) : files[f].modality \in {"audio", "video"}
    /\ \A e \in 1 .. Len(embeddings) : embeddings[e].modality \in {"audio", "video"}
    /\ JoinedRows("audio_video", None, FALSE) = <<>>
    /\ \A k \in 1 .. Len(search.all_results) :
          search.all_results[k].modality # "audio_video"
    /\ \A k \in 1 .. Len(search.pool) : search.pool[k].modality # "audio_video"

\* under a folder whose filter is audio_video a video file was indexed, and
\* an answered search by a video query that scanned the video leg and the
\* audio_video leg found it through the video leg
StoredModalityAudioOrVideoWitness ==
    /\ folders[1].modality = "audio_video"
    /\ \E e \in 1 .. Len(embeddings) :
          /\ embeddings[e].exists
          /\ embeddings[e].modality = "video"
          /\ files[embeddings[e].file_id].modality = "video"
    /\ search.pc = "done"
    /\ search.scans = 2
    /\ \E k \in 1 .. Len(search.query_embeddings) :
          search.query_embeddings[k].modality = "audio_video"
    /\ search.results # <<>>
    /\ \A k \in 1 .. Len(search.results) : search.results[k].modality = "video"

\* the stored vectors that a search had to rank: those of a scanned modality
\* and of a listed folder, whatever the deleted flag of their file
Candidates ==
    {e \in 1 .. Len(embeddings) :
        /\ \E k \in 1 .. Len(search.query_embeddings) :
              search.query_embeddings[k].modality = embeddings[e].modality
        /\ (search.request.folder_ids # None /\ search.request.folder_ids # <<>>)
              => files[embeddings[e].file_id].folder_id
                     \in SeqToSet(search.request.folder_ids)}

ScoreOf(e) ==
    Dot(QueryVectorOf(embeddings[e].modality), deserialize_array(embeddings[e].vector))

\* the target modalities of the request in hand
TargetsOf(request) ==
    IF request.modalities # None /\ request.modalities # <<>>
    THEN SeqToSet(request.modalities) ELSE SeqToSet(DefaultModalities)

\* the modalities a query of that type can be compared with
Compatible(query_type) ==
    CASE query_type = "audio" -> {"audio", "audio_video"}
      [] query_type = "video" -> {"video", "audio_video"}
      [] OTHER -> {"audio", "video", "audio_video"}

\* the scores of a list of results, in order
ScoresOf(items) == [k \in 1 .. Len(items) |-> items[k].similarity]

\* the bound on the number of stored scores of one modality
MaxStored == 3

\* the scores the rows of a modality can have against the query
StoredScores == {1, 2, 3}
ScoreLists == UNION {[1 .. n -> StoredScores] : n \in 0 .. MaxStored}

\* the (file, similarity) pairs of the scores that pass the threshold
RECURSIVE AboveItems(_, _)
AboveItems(scores, threshold) ==
    IF scores = <<>> THEN <<>>
    ELSE (IF AboveThreshold(Head(scores), threshold)
          THEN <<[similarity |-> Head(scores)]>> ELSE <<>>)
             \o AboveItems(Tail(scores), threshold)

\* C30 as stated: the two-stage cap does not guarantee the global top-k:
\* there are stored scores, a threshold and a top-k for which the scores of
\* the merged result (each modality sorted and cut at top-k, then the
\* concatenation sorted and cut at top-k) differ from the scores of the
\* top-k over all candidates of the queried modalities that pass the
\* threshold.  The scores, the threshold and the top-k are quantified, not
\* read from the store: the statement is made of the service before a
\* request.
TwoStageCapMisses ==
    search = IdleSearch =>
        \E stored \in [{"audio", "video"} -> ScoreLists] :
            \E threshold \in Thresholds : \E top_k \in 1 .. MaxTopK :
                LET audio == AboveItems(stored["audio"], threshold)
                    video == AboveItems(stored["video"], threshold)
                    merged == Take(SortDescending(Take(SortDescending(audio), top_k)
                                                     \o Take(SortDescending(video), top_k)),
                                   top_k)
                IN  ScoresOf(merged)
                        # ScoresOf(Take(SortDescending(audio \o video), top_k))

\* C30 amended: the two-stage cap gives the global top-k: for any stored
\* scores, threshold and top-k, the scores of the merged result are the
\* scores of the top-k over all the rows of the queried modalities that
\* passed the threshold when their modality was scanned.
MergedIsGlobalTopK ==
    search.pc = "done" =>
        ScoresOf(search.results)
            = ScoresOf(Take(SortDescending(search.pool), search.request.top_k))

\* an answered search over two modalities: the cut of the audio scan
\* dropped a row, and the video row outranks an audio row that the cut let
\* through
MergedIsGlobalTopKWitness ==
    /\ search.pc = "done"
    /\ search.scans >= 2
    /\ Len(search.pool) > Len(search.all_results)
    /\ Len(search.results) = search.request.top_k
    /\ search.results[1].modality = "video"
    /\ \E k \in 1 .. Len(search.all_results) :
          /\ search.all_results[k].modality = "audio"
          /\ search.all_results[k].similarity < search.results[1].similarity

\* C18: the query-vector map of a request.  For an audio or video query
\* for which the provider gave a vector it holds exactly the requested
\* modalities the query type can serve, each mapped to that one vector; for
\* a text query it holds exactly the requested modalities for which the
\* provider gave a vector, each mapped to its own.  With an empty map the
\* search is over with no result and no warning, and storage was not scanned.
QueryMapExact ==
    search.pc # "idle" =>
        LET q == search.query_embeddings
            served == {m \in TargetsOf(search.request) \cap Compatible(search.request.query_type) :
                          search.given[m] # NoVector}
        IN  /\ {q[k].modality : k \in 1 .. Len(q)} = served
            /\ Len(q) = Cardinality(served)
            /\ \A k \in 1 .. Len(q) : q[k].vector = search.given[q[k].modality]
            /\ search.request.query_type # "text" =>
                   \A k \in 1 .. Len(q) : q[k].vector = q[1].vector
            /\ q = <<>> => /\ search.pc = "done"
                           /\ search.results = <<>>
                           /\ search.warnings = <<>>
                           /\ search.scans = 0

\* a video query that asks for audio only: the provider gave a vector, an
\* audio embedding that would match is stored, and the search is over with
\* an empty map and no scan
QueryMapExactWitness ==
    /\ search.pc = "done"
    /\ search.request.query_type = "video"
    /\ search.request.modalities # None
    /\ search.request.threshold = 0
    /\ search.given["audio"] \in ProviderVectors
    /\ search.query_embeddings = <<>>
    /\ search.results = <<>>
    /\ search.scans = 0
    /\ \E e \in 1 .. Len(embeddings) : embeddings[e].modality = "audio"

\* C19: the response of find_similar_files never holds the reference file,
\* holds at most top_k results, greatest score first, each a file of the
\* reference file's modality whose score (the dot product of the reference
\* vector and its stored vector) is at least the threshold; it is empty
\* when the file or its embedding does not exist.
SimilarExcludesReference ==
    similar.pc = "done" =>
        LET r == similar.results
        IN  /\ \A k \in 1 .. Len(r) : r[k].file_id # similar.file_id
            /\ Len(r) <= similar.top_k
            /\ \A k \in 1 .. Len(r) - 1 : r[k].similarity >= r[k + 1].similarity
            /\ \A k \in 1 .. Len(r) :
                  /\ files[r[k].file_id].modality = files[similar.file_id].modality
                  /\ r[k].similarity >= similar.threshold
                  /\ r[k].similarity =
                        Dot(similar.query_vector,
                            deserialize_array(embeddings[r[k].embedding_id].vector))
            /\ (FileGet(similar.file_id) = 0 \/ EmbeddingGetByFile(similar.file_id) = <<>>)
                  => r = <<>> /\ similar.scans = 0

\* an audio file was compared with the two other audio files: both are
\* returned, the better one first, and the reference file itself scored at
\* least as well as either
SimilarExcludesReferenceWitness ==
    /\ similar.pc = "done"
    /\ similar.top_k = 2
    /\ Len(similar.results) = 2
    /\ similar.results[1].similarity > similar.results[2].similarity
    /\ Dot(similar.query_vector, similar.query_vector) >= similar.results[1].similarity
    /\ ~files[similar.file_id].is_deleted

\* C12: a file that is flagged deleted (here: already when the request
\* arrives) and whose embedding scores at least the threshold and among the
\* top-k is in the result list of the search, with its deleted flag set.
DeletedStillListed ==
    search.pc = "done" =>
        \A e \in Candidates :
            ( /\ embeddings[e].file_id \in search.flagged
              /\ ScoreOf(e) >= search.request.threshold
              /\ Cardinality({c \in Candidates : ScoreOf(c) > ScoreOf(e)})
                    < search.request.top_k )
            => \E k \in 1 .. Len(search.results) :
                  /\ search.results[k].file_id = embeddings[e].file_id
                  /\ search.results[k].is_deleted

\* a response with two results of equal score, while a stored vector of a
\* scanned modality scores below the threshold and is left out
RankedDescendingWitness ==
    /\ search.pc = "done"
    /\ Len(search.results) = 2
    /\ search.results[1].similarity = search.results[2].similarity
    /\ \E e \in 1 .. Len(embeddings) :
          /\ ~files[embeddings[e].file_id].is_deleted
          /\ \E k \in 1 .. Len(search.query_embeddings) :
                /\ search.query_embeddings[k].modality = embeddings[e].modality
                /\ Dot(search.query_embeddings[k].vector,
                       deserialize_array(embeddings[e].vector)) < search.request.threshold

-----------------------------------------------------------------------------
(***************************************************************************)
(* Scans and events over a store that already holds rows, and over two     *)
(* registered folders.                                                     *)
(***************************************************************************)

\* a store: the disk with the tables of folders, files and embeddings
Store(d, fo, fi, em) == [disk |-> d, folders |-> fo, files |-> fi, embeddings |-> em]

\* one folder whose file /a/x.wav has a row, soft-deleted or not, with an
\* embedding or without
IndexedStores ==
    { Store([p \in {FileX} |-> "file"],
            <<FolderRow(DirA, "all")>>,
            <<[NewFile(1, FileX, "audio") EXCEPT !.is_deleted = deleted]>>,
            IF indexed THEN <<NewEmbedding(1, Vec2, "audio", "audio_embeds")>> ELSE <<>>) :
        deleted \in BOOLEAN, indexed \in BOOLEAN }

\* an audio-only and a video-only folder, side by side or the video-only
\* folder inside the audio-only one, registered in either order, with
\* nothing indexed yet and a .wav file in each folder
TwoFolders(audio_dir, video_dir, video_first) ==
    IF video_first
    THEN <<FolderRow(video_dir, "video"), FolderRow(audio_dir, "audio")>>
    ELSE <<FolderRow(audio_dir, "audio"), FolderRow(video_dir, "video")>>

TwoFolderStores ==
    { Store([p \in {FileX, FileW} |-> "file"], TwoFolders(DirA, DirB, first), <<>>, <<>>) :
        first \in BOOLEAN }
    \cup
    { Store([p \in {FileX, FileV} |-> "file"], TwoFolders(DirA, DirV, first), <<>>, <<>>) :
        first \in BOOLEAN }

\* the events for /a/x.wav that reach the worker while scans run
RescanEvents == {Event("modify", FileX), Event("delete", FileX)}

\* C13: re-indexing a path whose File record is soft-deleted reuses the
\* record (the paths of the File rows stay distinct) and no step of a scan
\* or of an event task changes a deleted flag from true to false.
DeletedStaysDeleted ==
    [][ /\ \A f \in 1 .. Len(files) : files[f].is_deleted => files'[f].is_deleted
        /\ \A f \in 1 .. Len(files') : \A g \in 1 .. Len(files') :
              files'[f].path = files'[g].path => f = g ]_vars

\* a completed scan has overwritten the embedding of the soft-deleted file
\* /a/x.wav, which is on disk again: still one row, still flagged
DeletedStaysDeletedWitness ==
    /\ Len(files) = 1
    /\ files[1].is_deleted
    /\ files[1].indexed_at
    /\ FileX \in DOMAIN disk
    /\ \E j \in JobIds :
          /\ jobs[j].status = "completed"
          /\ jobs[j].processed_files = 1

\* C16: when the scan overwrites the embedding of a file that already has
\* one, and the rows it read are still the file's rows (no other task has
\* touched the file), the file keeps the same rows and each of them, once
\* deserialized, is the vector the provider returned last.
UpsertKeepsRowsAndVector ==
    [][ \A j \in JobIds :
          ( /\ scan[j].pc = "upsert"
            /\ scan'[j].pc = "inc_ok"
            /\ scan[j].existing # <<>>
            /\ scan[j].existing = EmbeddingGetByFile(scan[j].file_id) )
          => /\ Len(embeddings') = Len(embeddings)
             /\ EmbeddingGetByFile(scan[j].file_id)' = scan[j].existing
             /\ \A e \in SeqToSet(scan[j].existing) :
                   deserialize_array(embeddings'[e].vector) = scan[j].embedding ]_vars

\* the scan has overwritten the stored vector of an indexed file with a
\* different vector
UpsertKeepsRowsAndVectorWitness ==
    \E j \in JobIds :
        /\ scan[j].pc = "inc_ok"
        /\ scan[j].existing # <<>>
        /\ scan[j].embedding = Vec1
        /\ EmbeddingGetByFile(scan[j].file_id) = scan[j].existing
        /\ Len(embeddings) = 1
        /\ deserialize_array(embeddings[1].vector) = Vec1
        /\ files[scan[j].file_id].indexed_at

\* C14: a full scan never indexes a file under a folder whose modality
\* filter excludes the file's modality: no File row of an audio file is
\* owned by a video-only folder (and so no Embedding belongs to such a row),
\* for every registration order and folder layout.
NoAudioFileUnderVideoFolder ==
    \A f \in 1 .. Len(files) :
        folders[files[f].folder_id].modality = "video" => files[f].modality # "audio"

-----------------------------------------------------------------------------
(***************************************************************************)
(* ModelLoader.load.  The calls run on one event loop and interleave at    *)
(* their suspension points: the wait for the lock when it is taken, and    *)
(* the wait for the executor that runs the load.  An instance is named by  *)
(* the number of the _load_model_sync call that made it.                   *)
(***************************************************************************)

\* the calls of load() in one behaviour
MaxLoads == 4

\* the coroutines that ask for the model
LoadCallers == {"caller1", "caller2", "caller3"}

\* None, for self._model and self._processor
NoModel == 0

\* self._model is not None and self._processor is not None
IsCached == model # NoModel /\ processor # NoModel

\* asyncio.Lock.acquire does not suspend when the lock is free and nobody waits
CanLockMutant == TRUE
CanLock == ~loading_lock.locked /\ loading_lock.waiters = <<>>

IdleLoad == [pc |-> "idle", instance |-> NoModel, waited |-> FALSE]

LoadsInFlight == {c \in LoadCallers : loaders[c].pc # "idle"}

\* an entry of loaderLog: how the call ended ("cached": it returned the
\* cached pair, "loaded": it loaded and returned the pair, "raised"), the
\* pair it returned, whether it had waited for the lock, and the lock and
\* the cache as the call left them
Ended(c, op, m, p, waited, lock) ==
    [caller |-> c, op |-> op, model |-> m, processor |-> p, waited |-> waited,
     locked |-> lock.locked, cached |-> IsCached']

\* the body of the with block up to its suspension point: the second test
\* of the cache, then the call of _load_model_sync
InLock(c, waited, waiters) ==
    IF IsCached
    THEN /\ loading_lock' = [locked |-> FALSE, waiters |-> waiters]
         /\ loaders' = [loaders EXCEPT ![c] = IdleLoad]
         /\ loaderLog' = Append(loaderLog,
                                Ended(c, "cached", model, processor, waited, loading_lock'))
         /\ UNCHANGED load_calls
    ELSE /\ loading_lock' = [locked |-> TRUE, waiters |-> waiters]
         /\ load_calls' = load_calls + 1
         /\ loaders' = [loaders EXCEPT ![c] =
                           [pc |-> "loading", instance |-> load_calls + 1, waited |-> waited]]
         /\ UNCHANGED loaderLog

\* load() up to its first suspension point: the first test of the cache,
\* then the lock is taken or waited for
load(c) ==
    /\ loaders[c].pc = "idle"
    /\ Len(loaderLog) + Cardinality(LoadsInFlight) < MaxLoads
    /\ UNCHANGED <<model, processor, NotLoader>>
    /\ IF IsCached
       THEN /\ loaderLog' = Append(loaderLog,
                                   Ended(c, "cached", model, processor, FALSE, loading_lock))
            /\ UNCHANGED <<loading_lock, loaders, load_calls>>
       ELSE IF CanLock
            THEN InLock(c, FALSE, loading_lock.waiters)
            ELSE /\ loading_lock' = [loading_lock EXCEPT !.waiters = Append(@, c)]
                 /\ loaders' = [loaders EXCEPT ![c].pc = "waiting"]
                 /\ UNCHANGED <<load_calls, loaderLog>>

\* the first waiter is given the released lock and goes on in the with block
LockAcquired(c) ==
    /\ loaders[c].pc = "waiting"
    /\ ~loading_lock.locked
    /\ Head(loading_lock.waiters) = c
    /\ UNCHANGED <<model, processor, NotLoader>>
    /\ InLock(c, TRUE, Tail(loading_lock.waiters))

\* _load_model_sync returned: the pair is cached and returned, the lock is released
LoadReturns(c) ==
    /\ loaders[c].pc = "loading"
    /\ model' = loaders[c].instance
    /\ processor' = loaders[c].instance
    /\ loading_lock' = [loading_lock EXCEPT !.locked = FALSE]
    /\ loaders' = [loaders EXCEPT ![c] = IdleLoad]
    /\ loaderLog' = Append(loaderLog,
                           Ended(c, "loaded", model', processor', loaders[c].waited,
                                 loading_lock'))
    /\ UNCHANGED <<load_calls, NotLoader>>

\* _load_model_sync raised: the with block is left, the lock is released
LoadRaises(c) ==
    /\ loaders[c].pc = "loading"
    /\ UNCHANGED <<model, processor, load_calls, NotLoader>>
    /\ loading_lock' = [loading_lock EXCEPT !.locked = FALSE]
    /\ loaders' = [loaders EXCEPT ![c] = IdleLoad]
    /\ loaderLog' = Append(loaderLog,
                           Ended(c, "raised", NoModel, NoModel, loaders[c].waited,
                                 loading_lock'))

LoaderIdle ==
    /\ model = NoModel
    /\ processor = NoModel
    /\ loading_lock = [locked |-> FALSE, waiters |-> <<>>]
    /\ loaders = [c \in LoadCallers |-> IdleLoad]
    /\ load_calls = 0
    /\ loaderLog = <<>>

-----------------------------------------------------------------------------
(***************************************************************************)
(* Properties of the model loader.                                         *)
(***************************************************************************)

\* C20: under every interleaving of load() calls at most one call of the
\* underlying load succeeds, and no two run at once; every call that
\* returns gives the one cached (model, processor) pair; a call whose load
\* raised left the lock released and the cache empty.
LoadAtMostOnce ==
    /\ Cardinality({k \in 1 .. Len(loaderLog) : loaderLog[k].op = "loaded"}) <= 1
    /\ Cardinality({c \in LoadCallers : loaders[c].pc = "loading"}) <= 1
    /\ \A c \in LoadCallers :
          loaders[c].pc = "loading" => loading_lock.locked /\ ~IsCached
    /\ \A k \in 1 .. Len(loaderLog) :
          /\ loaderLog[k].op \in {"loaded", "cached"} =>
                /\ IsCached
                /\ loaderLog[k].model = model
                /\ loaderLog[k].processor = processor
          /\ loaderLog[k].op = "raised" =>
                ~loaderLog[k].locked /\ ~loaderLog[k].cached

\* a first load raised while a second caller waited for the lock; the second
\* caller then loaded, and a caller that had waited for the lock meanwhile
\* found the cache on its second test
LoadAtMostOnceWitness ==
    /\ Len(loaderLog) >= 3
    /\ loaderLog[1].op = "raised"
    /\ loaderLog[2].op = "loaded" /\ loaderLog[2].waited
    /\ loaderLog[3].op = "cached" /\ loaderLog[3].waited
    /\ load_calls = 2

-----------------------------------------------------------------------------
(***************************************************************************)
(* FileWatcher, the handlers it starts and the event loop.  Every watched  *)
(* folder has an observer thread that calls its handler.  _queue_event     *)
(* does not put the event itself: run_coroutine_threadsafe hands           *)
(* queue.put(event) to the event loop, which runs what it was handed first *)
(* come first (a callback and the task step it starts keep their place).   *)
(* The delete_folder request is a task of the same loop: it goes on when   *)
(* the loop runs its wake-up, which the storage hands to the loop when the *)
(* awaited call is done.  remove_folder does not suspend: observer.join()  *)
(* blocks the loop until the observer thread has ended.                    *)
(***************************************************************************)

\* the working directory, for Path.absolute()
Cwd == <<"/", "c">>

\* str(Path(p).absolute()): a path that is not absolute is put under Cwd
absolute(path) ==
    IF path # <<>> /\ Head(path) = "/" THEN path ELSE Cwd \o <<"/">> \o path

\* the observer add_folder starts: one watch, on str(Path(folder_path))
NewObserver(folder_path, folder_id) == [path |-> folder_path, folder_id |-> folder_id]

\* the observers of the active folders, as FileWatcher.start leaves them
StartedObservers ==
    [k \in 1 .. Len(FolderListActive) |->
        NewObserver(folders[FolderListActive[k]].path, FolderListActive[k])]

\* FileWatcher.remove_folder: self.observers after the call; the first
\* observer with a watch on the target is stopped, joined and popped
remove_folder_mutant(folder_path) == observers
remove_folder(folder_path) ==
    LET hits == {i \in 1 .. Len(observers) : observers[i].path = absolute(folder_path)}
    IN  IF hits = {} THEN observers
        ELSE LET i == CHOOSE x \in hits : \A y \in hits : x <= y
             IN  SubSeq(observers, 1, i - 1) \o SubSeq(observers, i + 1, Len(observers))

\* FolderCRUD.delete: the tables after the commit; the delete cascades to
\* the files of the folder and to their embeddings
FilesWithout(folder_id) ==
    [f \in 1 .. Len(files) |->
        IF files[f].folder_id = folder_id THEN [files[f] EXCEPT !.exists = FALSE]
        ELSE files[f]]
EmbeddingsWithout(folder_id) ==
    [e \in 1 .. Len(embeddings) |->
        IF files[embeddings[e].file_id].folder_id = folder_id
        THEN [embeddings[e] EXCEPT !.exists = FALSE]
        ELSE embeddings[e]]

\* what a watched handler is told: a file was deleted, or moved
WatchNotifications(folder_id) ==
    IF folder_id = 1
    THEN {[kind |-> "deleted", src |-> FileX, dest |-> <<>>],
          [kind |-> "moved", src |-> FileX, dest |-> FileZ],
          [kind |-> "moved", src |-> FileZ, dest |-> FileX]}
    ELSE {[kind |-> "deleted", src |-> FileW, dest |-> <<>>]}

\* the event _queue_event builds in the handler of that folder
EventOf(folder_id, action, path) == [Event(action, path) EXCEPT !.folder_id = folder_id]

\* the callbacks of the loop
PutCallback(event) == [kind |-> "put", event |-> event]
WakeCallback == [kind |-> "wake", event |-> None]

RECURSIVE PutCallbacks(_)
PutCallbacks(events) ==
    IF events = <<>> THEN <<>>
    ELSE <<PutCallback(Head(events))>> \o PutCallbacks(Tail(events))

\* the observer thread calls on_deleted or on_moved of its handler; the
\* handler hands a put to the loop for each event it forwards
dispatch(o, n) ==
    /\ Len(forwarded) < MaxEvents
    /\ LET fid == observers[o].folder_id
           r1 == should_process(last_event_time, n.src, now)
           r2 == should_process(r1.map, n.dest, now)
           enq == IF n.kind = "deleted"
                  THEN <<EventOf(fid, "delete", n.src)>>
                  ELSE (IF r1.ok THEN <<EventOf(fid, "delete", n.src)>> ELSE <<>>)
                       \o (IF r2.ok THEN <<EventOf(fid, "create", n.dest)>> ELSE <<>>)
       IN  /\ last_event_time' = IF n.kind = "deleted" THEN last_event_time ELSE r2.map
           /\ ready' = ready \o PutCallbacks(enq)
           /\ forwarded' = forwarded \o enq
    /\ UNCHANGED <<now, queue, observers, dereg, varsStore, varsWorker, NotWatcher>>

IdleDereg == [pc |-> "idle", folder_id |-> 0, found |-> FALSE, woken |-> FALSE]

\* delete_folder up to its first suspension point: FolderCRUD.get is awaited
delete_folder(folder_id) ==
    /\ dereg.pc = "idle"
    /\ dereg' = [IdleDereg EXCEPT !.pc = "get", !.folder_id = folder_id]
    /\ UNCHANGED <<observers, ready, forwarded, varsHandler, varsStore, varsWorker,
                   varsScan, varsTracker, varsSearch, varsLoader, varsSweep>>

\* the storage call delete_folder awaits is done: its wake-up is handed to the loop
StorageDone ==
    /\ dereg.pc \in {"get", "delete_get", "commit"}
    /\ ~dereg.woken
    /\ dereg' = [dereg EXCEPT !.woken = TRUE]
    /\ ready' = Append(ready, WakeCallback)
    /\ UNCHANGED <<observers, forwarded, varsHandler, varsStore, varsWorker,
                   varsScan, varsTracker, varsSearch, varsLoader, varsSweep>>

\* the callback the loop runs next: the oldest
NextReadyMutant(callbacks) == Len(callbacks)
NextReady(callbacks) == 1

\* delete_folder resumed, up to its next suspension point or its end:
\* after FolderCRUD.get the watch is removed and FolderCRUD.delete begins
\* with its own FolderCRUD.get; after that the delete and the commit; after
\* the commit the request returns (204), or 404 when there was no row
Resume ==
    CASE dereg.pc = "get" ->
           /\ observers' = IF FolderGet(dereg.folder_id) # 0
                           THEN remove_folder(folders[dereg.folder_id].path)
                           ELSE observers
           /\ dereg' = [dereg EXCEPT !.pc = "delete_get", !.woken = FALSE]
           /\ UNCHANGED <<folders, files, embeddings>>
      [] dereg.pc = "delete_get" ->
           /\ dereg' = IF FolderGet(dereg.folder_id) # 0
                       THEN [dereg EXCEPT !.pc = "commit", !.found = TRUE, !.woken = FALSE]
                       ELSE [dereg EXCEPT !.pc = "not_found", !.woken = FALSE]
           /\ UNCHANGED <<observers, folders, files, embeddings>>
      [] dereg.pc = "commit" ->
           /\ folders' = [folders EXCEPT ![dereg.folder_id].exists = FALSE]
           /\ files' = FilesWithout(dereg.folder_id)
           /\ embeddings' = EmbeddingsWithout(dereg.folder_id)
           /\ dereg' = [dereg EXCEPT !.pc = "returned", !.woken = FALSE]
           /\ UNCHANGED observers

\* the loop runs its next callback: a put, or the wake-up of delete_folder
run_once ==
    /\ ready # <<>>
    /\ LET i == NextReady(ready)
           callback == ready[i]
       IN  /\ ready' = SubSeq(ready, 1, i - 1) \o SubSeq(ready, i + 1, Len(ready))
           /\ IF callback.kind = "put"
              THEN /\ queue' = Append(queue, callback.event)
                   /\ UNCHANGED <<observers, dereg, folders, files, embeddings>>
              ELSE /\ Resume
                   /\ UNCHANGED queue
    /\ UNCHANGED <<forwarded, now, last_event_time, disk, jobs, varsWorker, NotWatcher>>

\* Path(p).exists() and Path(p).is_dir(): a directory is on the disk when a
\* file lies beneath it
is_dir(path) == \E p \in DOMAIN disk : StartsWith(p, path \o <<"/">>)

\* FolderCRUD.get_by_path: the id of the row with that path, or 0
FolderGetByPath(path) ==
    IF \E k \in 1 .. Len(folders) : folders[k].exists /\ folders[k].path = path
    THEN CHOOSE k \in 1 .. Len(folders) : folders[k].exists /\ folders[k].path = path
    ELSE 0

\* FileWatcher.add_folder: self.observers after the call; without the
\* directory nothing is started
add_folder(folder_path, folder_id) ==
    IF ~is_dir(folder_path) THEN observers
    ELSE Append(observers, NewObserver(folder_path, folder_id))

\* the most folder rows a behaviour creates
MaxFolders == 3

\* POST /folders: 409 for a registered path, 400 for a path that is no
\* directory; otherwise FolderCRUD.create and FileWatcher.add_folder
create_folder(path, modality) ==
    /\ Len(folders) < MaxFolders
    /\ IF FolderGetByPath(path) # 0 \/ ~is_dir(path)
       THEN UNCHANGED <<folders, observers>>
       ELSE /\ folders' = Append(folders, FolderRow(path, modality))
            /\ observers' = add_folder(path, Len(folders) + 1)
    /\ UNCHANGED <<disk, files, embeddings, jobs, ready, dereg, forwarded,
                   now, last_event_time, queue, varsWorker, NotWatcher>>

\* FolderCRUD.update: the row after the call; None leaves a field as it is
\* (is_active is the value of the request body: None, "true" or "false")
FolderUpdated(folder, is_active, modality) ==
    [folder EXCEPT !.is_active = IF is_active # None THEN is_active = "true" ELSE @,
                   !.modality = IF modality # None THEN modality ELSE @]

\* PUT /folders/{folder_id}: FolderCRUD.update, 404 without the row; the
\* watcher is not called
update_folder(folder_id, is_active, modality) ==
    /\ folders' = IF FolderGet(folder_id) = 0 THEN folders
                  ELSE [folders EXCEPT ![folder_id] = FolderUpdated(@, is_active, modality)]
    /\ UNCHANGED <<disk, files, embeddings, jobs, observers, ready, dereg, forwarded,
                   now, last_event_time, queue, varsWorker, NotWatcher>>

WatcherIdle ==
    /\ observers = <<>>
    /\ ready = <<>>
    /\ dereg = IdleDereg
    /\ forwarded = <<>>

-----------------------------------------------------------------------------
(***************************************************************************)
(* Properties of the watcher.                                              *)
(***************************************************************************)

\* the folders with a running watch, and the registered folders that are active
WatchedFolders == {observers[o].folder_id : o \in 1 .. Len(observers)}
ActiveFolders == {f \in 1 .. Len(folders) : folders[f].exists /\ folders[f].is_active}

\* C38: while the watcher runs, after any sequence of folder create, update
\* and delete requests (none of them in flight), the folders with a running
\* watch are the registered folders that are active, with one watch each.
WatchesMatchActiveFolders ==
    dereg.pc \in {"idle", "returned", "not_found"}
        => /\ WatchedFolders = ActiveFolders
           /\ Len(observers) = Cardinality(ActiveFolders)

\* the events of the handler of one folder, in order
RECURSIVE EventsOfFolder(_, _)
EventsOfFolder(events, folder_id) ==
    IF events = <<>> THEN <<>>
    ELSE (IF Head(events).folder_id = folder_id THEN <<Head(events)>> ELSE <<>>)
             \o EventsOfFolder(Tail(events), folder_id)

Watched(folder_id) == \E o \in 1 .. Len(observers) : observers[o].folder_id = folder_id

RECURSIVE PutEvents(_)
PutEvents(callbacks) ==
    IF callbacks = <<>> THEN <<>>
    ELSE (IF Head(callbacks).kind = "put" THEN <<Head(callbacks).event>> ELSE <<>>)
             \o PutEvents(Tail(callbacks))

\* q ends with all of p
IsSuffix(p, q) == Len(p) <= Len(q) /\ SubSeq(q, Len(q) - Len(p) + 1, Len(q)) = p

\* C28: events leave the queue in the order in which they entered it: the
\* loop takes the oldest event and a put adds at the end; the events one
\* handler has forwarded and that are not yet dequeued are, in the order
\* they will be dequeued in, the last events it forwarded in the order it
\* forwarded them; the two events of a move are forwarded, and so dequeued,
\* delete first.
DequeuedInEnqueueOrder ==
    /\ [](\A f \in 1 .. Len(folders) :
            IsSuffix(EventsOfFolder(queue \o PutEvents(ready), f),
                     EventsOfFolder(forwarded, f)))
    /\ [][ /\ Len(queue') < Len(queue)
                => /\ queue' = Tail(queue)
                   /\ tasks' = tasks (+) SetToBag({NewTask(Head(queue))})
           /\ Len(queue') > Len(queue)
                => /\ ready # <<>> /\ Head(ready).kind = "put"
                   /\ queue' = Append(queue, Head(ready).event)
                   /\ ready' = Tail(ready)
           /\ Len(forwarded') = Len(forwarded) + 2
                => /\ forwarded'[Len(forwarded) + 1].action = "delete"
                   /\ forwarded'[Len(forwarded) + 2].action = "create"
                   /\ PutEvents(ready') = PutEvents(ready)
                          \o SubSeq(forwarded', Len(forwarded) + 1, Len(forwarded) + 2) ]_vars

\* of the two events of one move the delete has been dequeued and the
\* create is the next event in the queue
DequeuedInEnqueueOrderWitness ==
    /\ forwarded = <<EventOf(1, "delete", FileX), EventOf(1, "create", FileZ)>>
    /\ queue = <<EventOf(1, "create", FileZ)>>
    /\ ready = <<>>
    /\ tasks = SetToBag({NewTask(EventOf(1, "delete", FileX))})

-----------------------------------------------------------------------------
(***************************************************************************)
(* Specifications.                                                         *)
(***************************************************************************)

\* the event handler alone
InitHandler ==
    HandlerIdle /\ StoreIdle /\ ScanIdle /\ WorkerIdle /\ TrackerIdle /\ SearchIdle /\ LoaderIdle /\ WatcherIdle
    /\ SweepIdle
NextHandler == HandlerStep
SpecHandler == InitHandler /\ [][NextHandler]_vars

\* scan jobs over a folder
Init ==
    /\ HandlerIdle
    /\ ScanIdle
    /\ WorkerIdle
    /\ TrackerIdle
    /\ SearchIdle
    /\ LoaderIdle
    /\ SweepIdle
    /\ WatcherIdle
    /\ disk \in DiskLayouts
    /\ folders = <<FolderRow(DirA, "all")>>
    /\ files = <<>>
    /\ embeddings = <<>>
    /\ jobs = <<>>

\* a further job is started only over the one-file disk
StartJob ==
    /\ Len(jobs) < MaxJobs
    /\ Len(jobs) = 0 \/ Cardinality(DOMAIN disk) = 1
    /\ \E r \in IndexRequests : index_folder(r.folder_id, r.mode)

Next == StartJob \/ ScanTaskStep

Spec == Init /\ [][Next]_vars

\* scan jobs that run concurrently over a folder with one file
InitRace ==
    /\ Init
    /\ Cardinality(DOMAIN disk) = 1

StartConcurrentJob ==
    /\ Len(jobs) < MaxJobs + 1
    /\ \E r \in IndexRequests : index_folder(r.folder_id, r.mode)

NextRace == StartConcurrentJob \/ ScanTaskStep

SpecRace == InitRace /\ [][NextRace]_vars

\* the worker and the events put on its queue
InitWorker ==
    /\ HandlerIdle
    /\ ScanIdle
    /\ TrackerIdle
    /\ SearchIdle
    /\ LoaderIdle
    /\ SweepIdle
    /\ WatcherIdle
    /\ max_concurrent_jobs \in (1 .. MaxConcurrent) \cup {DefaultConcurrentJobs}
    /\ semaphore = max_concurrent_jobs
    /\ worker_running = FALSE
    /\ tasks = EmptyBag
    /\ events_queued = 0
    /\ disk = [p \in {FileX, FileZ, FileE} |-> IF p = FileE THEN "empty" ELSE "file"]
    /\ folders = <<FolderRow(DirA, "all")>>
    /\ files = TrackedFiles
    /\ embeddings = <<>>
    /\ jobs = <<>>

NextWorker ==
    \/ \E event \in WorkerEvents : QueueEvent(event)
    \/ start
    \/ stop
    \/ process_loop
    \/ WorkerTaskStep

SpecWorker == InitWorker /\ [][NextWorker]_vars

\* the deletion tracker, one call at a time
InitTracker ==
    /\ HandlerIdle
    /\ ScanIdle
    /\ WorkerIdle
    /\ SearchIdle
    /\ LoaderIdle
    /\ SweepIdle
    /\ WatcherIdle
    /\ TrackerIdle
    /\ disk = [p \in {FileX, FileY} |-> "file"]
    /\ folders = <<FolderRow(DirA, "all")>>
    /\ files = TrackedFiles
    /\ embeddings = <<>>
    /\ jobs = <<>>

NextTracker ==
    \/ CallsInFlight = {} /\ \E path \in TrackerPaths : mark_file_deleted(path)
    \/ CallsInFlight = {} /\ \E c \in Callers : \E f \in TrackerFileIds : notify_if_deleted(c, f)
    \/ \E c \in Callers : NotifyMarkNotified(c)

SpecTracker == InitTracker /\ [][NextTracker]_vars

\* the deletion tracker with interleaved notify calls
NextTrackerConcurrent ==
    \/ \E path \in TrackerPaths : mark_file_deleted(path)
    \/ \E c \in Callers : \E f \in TrackerFileIds : notify_if_deleted(c, f)
    \/ \E c \in Callers : NotifyMarkNotified(c)

SpecTrackerConcurrent == InitTracker /\ [][NextTrackerConcurrent]_vars

\* search requests over an indexed store
InitSearch ==
    /\ HandlerIdle
    /\ ScanIdle
    /\ WorkerIdle
    /\ TrackerIdle
    /\ SearchIdle
    /\ LoaderIdle
    /\ SweepIdle
    /\ WatcherIdle
    /\ disk = [p \in SeqToSet(IndexedPaths) |-> "file"]
    /\ folders = <<FolderRow(DirA, "all"), FolderRow(DirB, "all")>>
    /\ files = IndexedFiles([k \in 1 .. Len(IndexedPaths) |-> FALSE])
    /\ \E vectors \in IndexedVectors : embeddings = IndexedEmbeddings(vectors)
    /\ jobs = <<>>

\* a deletion event for a file that is not yet flagged
MarkWhileSearching ==
    \E path \in MarkedPaths :
        /\ ~files[FileGetByPath(path)].is_deleted
        /\ mark_file_deleted(path)

NextSearch ==
    \/ \E request \in SearchRequests : SearchBegin(request)
    \/ SearchResume
    \/ \E file_id \in TrackerFileIds : \E top_k \in 1 .. MaxTopK :
          \E threshold \in Thresholds : find_similar_files(file_id, top_k, threshold)
    \/ FindSimilarResume
    \/ MarkWhileSearching

SpecSearch == InitSearch /\ [][NextSearch]_vars

\* scans and one event over a store with rows or with two folders
InitRescan ==
    /\ HandlerIdle
    /\ ScanIdle
    /\ WorkerIdle
    /\ TrackerIdle
    /\ SearchIdle
    /\ LoaderIdle
    /\ SweepIdle
    /\ WatcherIdle
    /\ \E st \in IndexedStores \cup TwoFolderStores :
          /\ disk = st.disk
          /\ folders = st.folders
          /\ files = st.files
          /\ embeddings = st.embeddings
    /\ jobs = <<>>

\* a behaviour holds one scan request
StartRescan ==
    /\ jobs = <<>>
    /\ \E r \in IndexRequests : index_folder(r.folder_id, r.mode)

QueueOneEvent ==
    /\ events_queued = 0
    /\ \E event \in RescanEvents : QueueEvent(event)

NextRescan ==
    \/ StartRescan
    \/ ScanTaskStep
    \/ QueueOneEvent
    \/ start
    \/ process_loop
    \/ WorkerTaskStep

SpecRescan == InitRescan /\ [][NextRescan]_vars

\* the model loader with several callers
InitLoader ==
    /\ HandlerIdle
    /\ StoreIdle
    /\ ScanIdle
    /\ WorkerIdle
    /\ TrackerIdle
    /\ SearchIdle
    /\ LoaderIdle
    /\ SweepIdle
    /\ WatcherIdle

NextLoader ==
    \/ \E c \in LoadCallers : load(c)
    \/ \E c \in LoadCallers : LockAcquired(c)
    \/ \E c \in LoadCallers : LoadReturns(c)
    \/ \E c \in LoadCallers : LoadRaises(c)

SpecLoader == InitLoader /\ [][NextLoader]_vars

\* the watcher over two watched folders, one delete_folder request
InitWatcher ==
    /\ HandlerIdle
    /\ ScanIdle
    /\ WorkerIdle
    /\ TrackerIdle
    /\ SearchIdle
    /\ LoaderIdle
    /\ SweepIdle
    /\ disk = [p \in {FileX, FileW} |-> "file"]
    /\ folders = <<FolderRow(DirA, "all"), FolderRow(DirB, "all")>>
    /\ files = <<NewFile(1, FileX, "audio"), NewFile(2, FileW, "audio")>>
    /\ embeddings = <<NewEmbedding(1, Vec1, "audio", "audio_embeds")>>
    /\ jobs = <<>>
    /\ observers = StartedObservers
    /\ ready = <<>>
    /\ dereg = IdleDereg
    /\ forwarded = <<>>

NextWatcher ==
    \/ \E o \in 1 .. Len(observers) :
          \E n \in WatchNotifications(observers[o].folder_id) : dispatch(o, n)
    \/ \E folder_id \in 1 .. Len(folders) + 1 : delete_folder(folder_id)
    \/ StorageDone
    \/ run_once

SpecWatcher == InitWatcher /\ [][NextWatcher]_vars

\* the watcher and the dequeue loop of the worker
NextPipeline ==
    \/ NextWatcher
    \/ start
    \/ process_loop

SpecPipeline == InitWatcher /\ [][NextPipeline]_vars

\* a scan over two nested folders, registered in either order, while one
\* of them is deleted
InitOwner ==
    /\ HandlerIdle
    /\ ScanIdle
    /\ WorkerIdle
    /\ TrackerIdle
    /\ SearchIdle
    /\ LoaderIdle
    /\ SweepIdle
    /\ disk = [p \in {FileX, FileV} |-> "file"]
    /\ folders \in {<<FolderRow(DirV, "all"), FolderRow(DirA, "all")>>,
                    <<FolderRow(DirA, "all"), FolderRow(DirV, "all")>>}
    /\ files = <<>>
    /\ embeddings = <<>>
    /\ jobs = <<>>
    /\ observers = StartedObservers
    /\ ready = <<>>
    /\ dereg = IdleDereg
    /\ forwarded = <<>>

NextOwner ==
    \/ StartRescan
    \/ ScanTaskStep
    \/ \E folder_id \in 1 .. Len(folders) : delete_folder(folder_id)
    \/ StorageDone
    \/ run_once

SpecOwner == InitOwner /\ [][NextOwner]_vars

\* folder requests while the watcher runs: one folder is registered, the
\* directories /a, /a/v and /b are on the disk, /c is not
DirC == <<"/", "c">>

InitFolders ==
    /\ HandlerIdle
    /\ ScanIdle
    /\ WorkerIdle
    /\ TrackerIdle
    /\ SearchIdle
    /\ LoaderIdle
    /\ SweepIdle
    /\ disk = [p \in {FileX, FileV, FileW} |-> "file"]
    /\ folders = <<FolderRow(DirA, "all")>>
    /\ files = <<NewFile(1, FileX, "audio")>>
    /\ embeddings = <<NewEmbedding(1, Vec1, "audio", "audio_embeds")>>
    /\ jobs = <<>>
    /\ observers = StartedObservers
    /\ ready = <<>>
    /\ dereg = IdleDereg
    /\ forwarded = <<>>

NextFolders ==
    \/ \E path \in {DirA, DirB, DirV, DirC} : \E modality \in {"all", "audio"} :
          create_folder(path, modality)
    \/ \E folder_id \in 1 .. Len(folders) + 1 :
          \E is_active \in {None, "true", "false"} : \E modality \in {None, "video"} :
             update_folder(folder_id, is_active, modality)
    \/ \E folder_id \in 1 .. Len(folders) + 1 : delete_folder(folder_id)
    \/ StorageDone
    \/ run_once

SpecFolders == InitFolders /\ [][NextFolders]_vars

\* a scan over the sibling folders /a and /ab, registered in either order,
\* or with /ab switched off
InitSibling ==
    /\ HandlerIdle
    /\ ScanIdle
    /\ WorkerIdle
    /\ TrackerIdle
    /\ SearchIdle
    /\ LoaderIdle
    /\ SweepIdle
    /\ WatcherIdle
    /\ disk = [p \in {FileX, FileAB} |-> "file"]
    /\ folders \in {<<FolderRow(DirA, "all"), FolderRow(DirAB, "all")>>,
                    <<FolderRow(DirAB, "all"), FolderRow(DirA, "all")>>,
                    <<FolderRow(DirA, "all"),
                      [FolderRow(DirAB, "all") EXCEPT !.is_active = FALSE]>>}
    /\ files = <<>>
    /\ embeddings = <<>>
    /\ jobs = <<>>

NextSibling ==
    \/ StartRescan
    \/ ScanTaskStep

SpecSibling == InitSibling /\ [][NextSibling]_vars

\* scans, one event and one search by a video query over a folder with an
\* audio and a video file, for every modality filter of the folder
FolderModalities == {"all", "audio", "video", "audio_video"}

ModalityRequests ==
    [query_type : {"video"},
     modalities : {None},
     folder_ids : {None},
     top_k : {MaxTopK},
     threshold : {0}]

InitModality ==
    /\ HandlerIdle
    /\ ScanIdle
    /\ WorkerIdle
    /\ TrackerIdle
    /\ SearchIdle
    /\ LoaderIdle
    /\ SweepIdle
    /\ WatcherIdle
    /\ disk = [p \in {FileX, FileY} |-> "file"]
    /\ \E modality \in FolderModalities : folders = <<FolderRow(DirA, modality)>>
    /\ files = <<>>
    /\ embeddings = <<>>
    /\ jobs = <<>>

NextModality ==
    \/ StartRescan
    \/ ScanTaskStep
    \/ QueueOneEvent
    \/ start
    \/ process_loop
    \/ WorkerTaskStep
    \/ \E request \in ModalityRequests : SearchBegin(request)
    \/ SearchResume

SpecModality == InitModality /\ [][NextModality]_vars

\* one scan_for_deleted_files call over a store
InitSweep ==
    /\ HandlerIdle
    /\ ScanIdle
    /\ WorkerIdle
    /\ TrackerIdle
    /\ SearchIdle
    /\ LoaderIdle
    /\ WatcherIdle
    /\ SweepIdle
    /\ \E present \in SUBSET SeqToSet(SweptPaths) : disk = [p \in present |-> "file"]
    /\ folders = <<FolderRow(DirA, "all"), FolderRow(DirB, "all")>>
    /\ \E flags \in [1 .. Len(SweptPaths) -> {"live", "deleted", "notified"}] :
          files = SweptFiles(flags)
    /\ embeddings = <<>>
    /\ jobs = <<>>

NextSweep ==
    \/ \E folder_id \in 1 .. Len(folders) + 1 : scan_for_deleted_files(folder_id)
    \/ SweepResume

SpecSweep == InitSweep /\ [][NextSweep]_vars

=============================================================================
